---- MODULE Spec2Model ----
(***************************************************************************)
(* A model of the people/organization search service                      *)
(* (problem-2/search-implementation-new.ts with utils/query-parser.ts,    *)
(* utils/normalization.ts, types and data/sample-data.ts).                *)
(*                                                                         *)
(* JavaScript strings are TLA+ strings; a character is a string of length *)
(* one.  Scores are fixed-point numbers in units of 1/Scale.  An optional *)
(* field of a JavaScript object is a field that is or is not in the       *)
(* DOMAIN of the record that models the object.                           *)
(***************************************************************************)
EXTENDS Integers, Sequences, FiniteSets, TLC

VARIABLES
    people,                 \* SearchService.people
    organizations,          \* SearchService.organizations
    processedPeople,        \* SearchService.processedPeople
    processedOrganizations, \* SearchService.processedOrganizations
    callerQuery,            \* the SearchQuery object the caller holds
    now,                    \* Date.now(), in months
    outcome,                \* how the last call of search ended
    results,                \* the list the last call of search returned
    parsed,                 \* the ParsedQuery of the last call of search
    fn,                     \* the utility function last applied
    args,                   \* its arguments
    ret                     \* its result

vars == <<people, organizations, processedPeople, processedOrganizations,
          callerQuery, now, outcome, results, parsed, fn, args, ret>>

(***************************************************************************)
(* Bounds of the model.                                                    *)
(***************************************************************************)
MaxLen == 4           \* longest string handed to levenshteinDistance
MaxFuzzyLen == 3      \* longest generated string handed to calculateFuzzyScore
MaxTokens == 2        \* most words in a title handed to normalizeTitle
MaxDistanceBound == 3 \* largest maxDistance handed to levenshteinDistance
MaxTicks == 1         \* how far the clock advances

(***************************************************************************)
(* Characters and strings.                                                 *)
(***************************************************************************)
Ch(s, i) == SubSeq(s, i, i)

UpperChars == "ABCDEFGHIJKLMNOPQRSTUVWXYZ"

LowerChars == "abcdefghijklmnopqrstuvwxyz"

UpperSet == {Ch(UpperChars, i) : i \in 1..26}

LowerSet == {Ch(LowerChars, i) : i \in 1..26}

DigitSet == {"0", "1", "2", "3", "4", "5", "6", "7", "8", "9"}

WordSet == UpperSet \cup LowerSet \cup DigitSet \cup {"_"}

LowerOf == [c \in UpperSet |-> Ch(LowerChars, CHOOSE i \in 1..26 : Ch(UpperChars, i) = c)]

\* \s of a regular expression
IsSpace(c) == c \in {" ", "\t", "\n"}

\* \w of a regular expression
IsWord(c) == c \in WordSet

\* What a replacement makes of the character c:
\*   toLowerCase       String.prototype.toLowerCase,
\*   normalizeText     toLowerCase and then replace(/[^\w\s$]/g, " "),
\*   separatorToSpace  replace(/[\-_]/g, " "),
\*   spaceToDash       replace(/\s+/g, '-') of a string whose white space is
\*                     collapsed.
MapChar(map, c) ==
    CASE map = "toLowerCase" -> IF c \in UpperSet THEN LowerOf[c] ELSE c
      [] map = "normalizeText" ->
            IF c \in UpperSet THEN LowerOf[c]
            ELSE IF IsWord(c) \/ IsSpace(c) \/ c = "$" THEN c ELSE " "
      [] map = "separatorToSpace" -> IF c \in {"-", "_"} THEN " " ELSE c
      [] map = "spaceToDash" -> IF IsSpace(c) THEN "-" ELSE c

RECURSIVE MapChars(_, _, _)
\* s with each character replaced as map says, from position i on
MapChars(map, s, i) ==
    IF i > Len(s) THEN "" ELSE MapChar(map, Ch(s, i)) \o MapChars(map, s, i + 1)

\* String.prototype.toLowerCase
toLowerCase(s) == MapChars("toLowerCase", s, 1)

\* String.prototype.includes
includes(t, q) ==
    \E i \in 1..(Len(t) - Len(q) + 1) : SubSeq(t, i, i + Len(q) - 1) = q

\* the index of the first occurrence of q in t at or after from, 0 when none
IndexOfFrom(t, q, from) ==
    LET hits == {i \in from..(Len(t) - Len(q) + 1) : SubSeq(t, i, i + Len(q) - 1) = q}
    IN  IF hits = {} THEN 0 ELSE CHOOSE i \in hits : \A j \in hits : i <= j

\* String.prototype.trim
trim(s) ==
    LET keep == {i \in 1..Len(s) : ~IsSpace(Ch(s, i))}
    IN  IF keep = {} THEN ""
        ELSE SubSeq(s, CHOOSE i \in keep : \A j \in keep : i <= j,
                       CHOOSE i \in keep : \A j \in keep : i >= j)

RECURSIVE CollapseSpaces(_, _)
\* replace(/\s+/g, " ")
CollapseSpaces(s, i) ==
    IF i > Len(s) THEN ""
    ELSE IF IsSpace(Ch(s, i))
         THEN IF i > 1 /\ IsSpace(Ch(s, i - 1))
              THEN CollapseSpaces(s, i + 1)
              ELSE " " \o CollapseSpaces(s, i + 1)
         ELSE Ch(s, i) \o CollapseSpaces(s, i + 1)

RECURSIVE SplitSpaces(_, _, _)
\* split(/\s+/): the pieces of s between runs of white space, from position i
\* on, cur being the piece collected so far
SplitSpaces(s, i, cur) ==
    IF i > Len(s) THEN <<cur>>
    ELSE IF IsSpace(Ch(s, i))
         THEN IF i > 1 /\ IsSpace(Ch(s, i - 1))
              THEN SplitSpaces(s, i + 1, cur)
              ELSE <<cur>> \o SplitSpaces(s, i + 1, "")
         ELSE SplitSpaces(s, i + 1, cur \o Ch(s, i))

\* \b of a regular expression at the gap before position i of s
WordBoundary(s, i) ==
    LET before == i > 1 /\ i - 1 <= Len(s) /\ IsWord(Ch(s, i - 1))
        after  == i >= 1 /\ i <= Len(s) /\ IsWord(Ch(s, i))
    IN  before # after

\* /\bw\b/ matches s at position i
WordAt(s, w, i) ==
    /\ i + Len(w) - 1 <= Len(s)
    /\ SubSeq(s, i, i + Len(w) - 1) = w
    /\ WordBoundary(s, i)
    /\ WordBoundary(s, i + Len(w))

\* /\bw\b/.test(s)
HasWord(s, w) == \E i \in 1..Len(s) : WordAt(s, w, i)

RECURSIVE ReplaceWordAll(_, _, _, _)
\* s.replace(/\bkey\b/g, value), from position i on
ReplaceWordAll(s, key, value, i) ==
    IF i > Len(s) THEN ""
    ELSE IF WordAt(s, key, i)
         THEN value \o ReplaceWordAll(s, key, value, i + Len(key))
         ELSE Ch(s, i) \o ReplaceWordAll(s, key, value, i + 1)

\* s.replace(q, "") for a string q: the first occurrence of q removed
RemoveFirst(s, q) ==
    LET i == IndexOfFrom(s, q, 1)
    IN  IF i = 0 THEN s ELSE SubSeq(s, 1, i - 1) \o SubSeq(s, i + Len(q), Len(s))

Min(a, b) == IF a <= b THEN a ELSE b

Max(a, b) == IF a >= b THEN a ELSE b

Abs(a) == IF a >= 0 THEN a ELSE 0 - a

(***************************************************************************)
(* Object literals used as lookup tables.  A lookup mappings[key] of a     *)
(* key the literal does not define finds what the literal inherits from   *)
(* Object.prototype: of the keys a lowercased string can be, "constructor" *)
(* (the function Object) and "__proto__" (Object.prototype itself).  Both *)
(* are truthy and neither is a string or an array.                        *)
(***************************************************************************)
ObjectFunction == "<function Object>"

ObjectPrototype == "<object Object.prototype>"

Inherited == [constructor |-> ObjectFunction, __proto__ |-> ObjectPrototype]

NotAString == {ObjectFunction, ObjectPrototype}

TypeError == "<TypeError>"

\* mappings[key] || dflt, the table mapping strings to strings
LookupOr(table, key, dflt) ==
    IF key \in DOMAIN table THEN table[key]
    ELSE IF key \in DOMAIN Inherited THEN Inherited[key]
    ELSE dflt

(***************************************************************************)
(* utils/normalization.ts                                                  *)
(***************************************************************************)
normalizeText(input) == trim(CollapseSpaces(MapChars("normalizeText", input, 1), 1))

LocationMappings ==
    [sf |-> "san francisco", nyc |-> "new york", ny |-> "new york", la |-> "los angeles"]
    @@ ("san fran" :> "san francisco") @@ ("bay area" :> "san francisco")

normalizeLocation(location) ==
    IF location \in NotAString THEN TypeError
    ELSE LET lower == trim(toLowerCase(location))
         IN  LookupOr(LocationMappings, lower, lower)

\* the entries of normalizeTitle's mappings, in insertion order
TitleMappings == <<
    <<"cto", "chief technology officer">>,
    <<"ceo", "chief executive officer">>,
    <<"coo", "chief operating officer">>,
    <<"cfo", "chief financial officer">>,
    <<"vp", "vice president">>,
    <<"swe", "software engineer">>,
    <<"dev", "software engineer">>,
    <<"developer", "software engineer">>,
    <<"software developer", "software engineer">>,
    <<"software dev", "software engineer">>,
    <<"backend engineer", "software engineer">>,
    <<"backend developer", "software engineer">>,
    <<"backend dev", "software engineer">>,
    <<"frontend engineer", "software engineer">>,
    <<"frontend developer", "software engineer">>,
    <<"frontend dev", "software engineer">>,
    <<"eng", "engineer">>,
    <<"senior engineer", "senior software engineer">> >>

RECURSIVE ApplyTitleMappings(_, _)
ApplyTitleMappings(normalized, k) ==
    IF k > Len(TitleMappings) THEN normalized
    ELSE ApplyTitleMappings(
            ReplaceWordAll(normalized, TitleMappings[k][1], TitleMappings[k][2], 1), k + 1)

normalizeTitle(title) ==
    IF title \in NotAString THEN TypeError
    ELSE ApplyTitleMappings(trim(toLowerCase(title)), 1)

FundingStageMappings ==
    [seed |-> "seed", ipo |-> "ipo", public |-> "ipo"]
    @@ ("pre seed" :> "pre-seed") @@ ("series a" :> "series a")
    @@ ("series b" :> "series b") @@ ("series c" :> "series c")
    @@ ("early stage" :> "seed") @@ ("late stage" :> "series c")

normalizeFundingStage(stage) ==
    IF stage \in NotAString THEN TypeError
    ELSE LET lower == trim(ReplaceWordAll(
                        MapChars("separatorToSpace", trim(toLowerCase(stage)), 1),
                        "round", "", 1))
         IN  LookupOr(FundingStageMappings, lower, lower)

RECURSIVE CurrentRow(_, _, _, _, _)
\* the inner loop over j: cur is currentRow[0..j-1] (cur[k + 1] is currentRow[k])
CurrentRow(previousRow, longer, shorter, i, cur) ==
    LET j == Len(cur)
    IN  IF j > Len(shorter) THEN cur
        ELSE LET cost    == IF Ch(longer, i) = Ch(shorter, j) THEN 0 ELSE 1
                 insert  == previousRow[j + 1] + 1
                 delete  == cur[j] + 1
                 replace == previousRow[j] + cost
             IN  CurrentRow(previousRow, longer, shorter, i,
                            Append(cur, Min(insert, Min(delete, replace))))

\* Math.min over a row; the row's first entry is i, which minInRow starts from
MinInRow(row) == CHOOSE m \in {row[k] : k \in 1..Len(row)} : \A k \in 1..Len(row) : m <= row[k]

RECURSIVE LevenshteinRowsEager(_, _, _, _, _)
\* LevenshteinRows giving up as soon as the row's minimum reaches maxDistance
LevenshteinRowsEager(previousRow, longer, shorter, i, maxDistance) ==
    IF i > Len(longer) THEN previousRow[Len(shorter) + 1]
    ELSE LET currentRow == CurrentRow(previousRow, longer, shorter, i, <<i>>)
         IN  IF MinInRow(currentRow) >= maxDistance THEN maxDistance + 1
             ELSE LevenshteinRowsEager(currentRow, longer, shorter, i + 1, maxDistance)

RECURSIVE LevenshteinRows(_, _, _, _, _)
\* the outer loop over i
LevenshteinRows(previousRow, longer, shorter, i, maxDistance) ==
    IF i > Len(longer) THEN previousRow[Len(shorter) + 1]
    ELSE LET currentRow == CurrentRow(previousRow, longer, shorter, i, <<i>>)
         IN  IF MinInRow(currentRow) > maxDistance THEN maxDistance + 1
             ELSE LevenshteinRows(currentRow, longer, shorter, i + 1, maxDistance)

levenshteinDistance(a, b, maxDistance) ==
    IF a = b THEN 0
    ELSE IF Abs(Len(a) - Len(b)) > maxDistance THEN maxDistance + 1
    ELSE LET shorter == IF Len(a) < Len(b) THEN a ELSE b
             longer  == IF Len(a) < Len(b) THEN b ELSE a
         IN  LevenshteinRows([k \in 1..(Len(shorter) + 1) |-> k - 1],
                             longer, shorter, 1, maxDistance)

(***************************************************************************)
(* Scores.  Scale is 1.0; a weight or a score is a multiple of 1/Scale.    *)
(***************************************************************************)
Scale == 10000

\* a * b for two fixed-point numbers
Times(a, b) == (a * b) \div Scale

\* calculateFuzzyScore without the comparison of dist with maxDist
calculateFuzzyScoreUnbounded(queryLower, targetLower) ==
    IF includes(targetLower, queryLower) THEN Scale
    ELSE LET maxDist == Max(2, (3 * Len(queryLower)) \div 10)
             dist    == levenshteinDistance(queryLower, targetLower, maxDist)
         IN  Max(0, (8 * Scale) \div 10 - dist * (Scale \div 10))

\* SearchService.calculateFuzzyScore.  floor(length * 0.3) is (3 * length) \div 10
\* for every length below 400 in IEEE doubles as well.
calculateFuzzyScore(queryLower, targetLower) ==
    IF includes(targetLower, queryLower) THEN Scale
    ELSE LET maxDist == Max(2, (3 * Len(queryLower)) \div 10)
             dist    == levenshteinDistance(queryLower, targetLower, maxDist)
         IN  IF dist <= maxDist
             THEN Max(0, (8 * Scale) \div 10 - dist * (Scale \div 10))
             ELSE 0

(***************************************************************************)
(* JavaScript objects.                                                     *)
(***************************************************************************)
\* obj.f is not undefined
Has(obj, f) == f \in DOMAIN obj

\* obj.f is a truthy string (neither undefined nor "")
Truthy(obj, f) == Has(obj, f) /\ obj[f] # ""

\* obj with obj.f = v
With(obj, f, v) == (f :> v) @@ obj

\* {}
EmptyObject == [f \in {} |-> ""]

\* arr.includes(x)
InSeq(x, arr) == \E k \in 1..Len(arr) : arr[k] = x

(***************************************************************************)
(* utils/query-parser.ts                                                   *)
(***************************************************************************)
Synonyms ==
    [developer |-> <<"software engineer", "coder", "programmer", "dev", "software developer">>,
     dev       |-> <<"software engineer", "developer", "coder", "software developer">>,
     cto       |-> <<"chief technology officer", "tech lead">>,
     ceo       |-> <<"chief executive officer", "founder">>,
     startup   |-> <<"new company", "tech company", "venture">>,
     vc        |-> <<"venture capital", "investor">>,
     marketing |-> <<"growth", "brand">>,
     mike      |-> <<"michael">>,
     michael   |-> <<"mike">>,
     matt      |-> <<"matthew">>,
     matthew   |-> <<"matt">>,
     dan       |-> <<"daniel">>,
     daniel    |-> <<"dan">>,
     sam       |-> <<"samuel", "samantha">>,
     bob       |-> <<"robert">>,
     robert    |-> <<"bob", "rob">>,
     bill      |-> <<"william">>,
     william   |-> <<"will", "bill">>,
     joe       |-> <<"joseph">>,
     joseph    |-> <<"joe">>,
     jen       |-> <<"jennifer">>,
     jennifer  |-> <<"jen", "jenny">>,
     alex      |-> <<"alexander", "alexandra">>]
    @@ ("software engineer" :>
            <<"developer", "coder", "programmer", "swe", "dev", "software developer">>)
    @@ ("software developer" :> <<"software engineer", "developer", "coder", "dev">>)

RECURSIVE AddAll(_, _, _)
\* list.forEach(v => variations.add(v)), from the k-th entry on: a Set keeps
\* insertion order and ignores what it already holds
AddAll(variations, list, k) ==
    IF k > Len(list) THEN variations
    ELSE AddAll(IF InSeq(list[k], variations) THEN variations
                ELSE Append(variations, list[k]), list, k + 1)

RECURSIVE AddWordSynonyms(_, _, _)
\* words.forEach(word => ...), from the k-th word on; TypeError when
\* synonyms[word] is inherited, in which case it has no forEach
AddWordSynonyms(variations, words, k) ==
    IF k > Len(words) THEN variations
    ELSE IF words[k] \in DOMAIN Synonyms
         THEN AddWordSynonyms(AddAll(variations, Synonyms[words[k]], 1), words, k + 1)
         ELSE IF words[k] \in DOMAIN Inherited THEN TypeError
         ELSE AddWordSynonyms(variations, words, k + 1)

\* expandSearchText with the variants of the whole text put in its place
expandSearchTextReplacing(text) ==
    LET textLower == trim(toLowerCase(text))
        phrase    == IF textLower \in DOMAIN Synonyms
                     THEN AddAll(<<>>, Synonyms[textLower], 1)
                     ELSE IF textLower \in DOMAIN Inherited THEN TypeError
                     ELSE <<textLower>>
    IN  IF phrase = TypeError THEN TypeError
        ELSE AddWordSynonyms(phrase, SplitSpaces(textLower, 1, ""), 1)

\* the list of variations, or TypeError
expandSearchText(text) ==
    LET textLower == trim(toLowerCase(text))
        phrase    == IF textLower \in DOMAIN Synonyms
                     THEN AddAll(<<textLower>>, Synonyms[textLower], 1)
                     ELSE IF textLower \in DOMAIN Inherited THEN TypeError
                     ELSE <<textLower>>
    IN  IF phrase = TypeError THEN TypeError
        ELSE AddWordSynonyms(phrase, SplitSpaces(textLower, 1, ""), 1)

PersonWords == {"engineer", "developer", "cto", "ceo", "founder", "people", "person"}

OrganizationWords == {"company", "startup", "firm", "agency"}

\* InferEntityType looking for an organization word first
InferEntityTypeOrganizationFirst(query, text) ==
    LET given == IF Has(query, "entityType") THEN query.entityType ELSE ""
    IN  IF given \in {"", "both"}
        THEN IF \E w \in OrganizationWords : HasWord(text, w) \/ HasWord(text, w \o "s")
             THEN "organization"
             ELSE IF \E w \in PersonWords : HasWord(text, w) THEN "person"
             ELSE given
        ELSE given

\* step 2: the entity type after inference, "" standing for undefined
InferEntityType(query, text) ==
    LET given == IF Has(query, "entityType") THEN query.entityType ELSE ""
    IN  IF given \in {"", "both"}
        THEN IF \E w \in PersonWords : HasWord(text, w) THEN "person"
             ELSE IF \E w \in OrganizationWords : HasWord(text, w) \/ HasWord(text, w \o "s")
                  THEN "organization"
             ELSE given
        ELSE given

\* the character c is of the class named class
InClass(class, c) ==
    CASE class = "\\s"          -> IsSpace(c)
      [] class = "[a-z\\s]"      -> c \in LowerSet \/ IsSpace(c)
      [] class = "[a-zA-Z0-9\\s]" ->
            c \in LowerSet \/ c \in UpperSet \/ c \in DigitSet \/ IsSpace(c)

RECURSIVE RunLength(_, _, _)
\* the number of characters of s from position p on that are of the class
RunLength(class, s, p) ==
    IF p <= Len(s) /\ InClass(class, Ch(s, p)) THEN 1 + RunLength(class, s, p + 1) ELSE 0

\* The ways /\b<lit>\s+([class]{lo,hi})\b/ matches s at position i: the pairs
\* <<k, n>> of the number of white-space characters \s+ takes and the length
\* of the group.
PhraseMatchesAt(class, s, lit, lo, hi, i) ==
    IF ~(/\ WordBoundary(s, i)
         /\ i + Len(lit) - 1 <= Len(s)
         /\ SubSeq(s, i, i + Len(lit) - 1) = lit) THEN {}
    ELSE LET p0 == i + Len(lit)
         IN  {kn \in (1..RunLength("\\s", s, p0)) \X (lo..hi) :
                 /\ kn[2] <= RunLength(class, s, p0 + kn[1])
                 /\ WordBoundary(s, p0 + kn[1] + kn[2])}

\* s.match(/\b<lit>\s+([class]{lo,hi})\b/): [found, whole, group]: the leftmost
\* position that matches, there the longest \s+ and then the longest group
\* (both quantifiers are greedy)
PhraseMatch(class, s, lit, lo, hi) ==
    LET starts == {i \in 1..Len(s) : PhraseMatchesAt(class, s, lit, lo, hi, i) # {}}
    IN  IF starts = {} THEN [found |-> FALSE, whole |-> "", group |-> ""]
        ELSE LET i  == CHOOSE x \in starts : \A y \in starts : x <= y
                 ms == PhraseMatchesAt(class, s, lit, lo, hi, i)
                 kn == CHOOSE x \in ms : \A y \in ms :
                          x[1] > y[1] \/ (x[1] = y[1] /\ x[2] >= y[2])
                 g  == i + Len(lit) + kn[1]
             IN  [found |-> TRUE,
                  whole |-> SubSeq(s, i, g + kn[2] - 1),
                  group |-> SubSeq(s, g, g + kn[2] - 1)]

\* /^(funded|a|the|any|some)\s+(company|startup|firm|org)s?$/.test(candidate)
IsGenericDescriptor(candidate) ==
    \E d \in {"funded", "a", "the", "any", "some"} :
    \E n \in {"company", "startup", "firm", "org"} :
    \E plural \in {"", "s"} :
        LET k    == Len(candidate) - Len(d) - Len(n) - Len(plural)
        IN  /\ k >= 1
            /\ SubSeq(candidate, 1, Len(d)) = d
            /\ RunLength("\\s", candidate, Len(d) + 1) = k
            /\ SubSeq(candidate, Len(d) + k + 1, Len(candidate)) = n \o plural

\* "Guard against non-locations" and "Guard against common non-company
\* words/phrases": the trimmed group is not taken as the filter f
IsGuarded(f, candidate) ==
    IF f = "location"
    THEN \E w \in {"startup", "company", "series"} : HasWord(candidate, w)
    ELSE toLowerCase(candidate) \in
            {"least", "most", "the", "home", "work", "school", "university", "series",
             "funded", "company", "funded company", "startup", "startups", "a"}
         \/ IsGenericDescriptor(toLowerCase(candidate))

\* the filter f and the text after a match of its pattern: step is
\* [filters, text], match what PhraseMatch found
TakePhrase(step, f, match) ==
    IF match.found /\ ~IsGuarded(f, trim(match.group))
    THEN [filters |-> With(step.filters, f, trim(match.group)),
          text    |-> trim(RemoveFirst(step.text, match.whole))]
    ELSE step

\* ExtractLocation without "Only if not explicitly set"
ExtractLocationOverExplicit(step) ==
    TakePhrase(step, "location", PhraseMatch("[a-z\\s]", step.text, "in", 2, 30))

\* step 3, "in [Location]"
ExtractLocation(step) ==
    IF Truthy(step.filters, "location") THEN step
    ELSE TakePhrase(step, "location", PhraseMatch("[a-z\\s]", step.text, "in", 2, 30))

FundingStagePhrases ==
    {"series a", "series b", "series c", "series d", "series e",
     "seed", "preseed", "pre-seed", "ipo"}

\* text.match(/\b(series [a-e]|seed|pre-?seed|ipo)\b/i)[0], "" when there is no
\* match; the text is in lower case by then
FundingMatch(text) ==
    LET hits == {i \in 1..Len(text) : \E ph \in FundingStagePhrases : WordAt(text, ph, i)}
    IN  IF hits = {} THEN ""
        ELSE LET i == CHOOSE x \in hits : \A y \in hits : x <= y
             IN  CHOOSE ph \in FundingStagePhrases : WordAt(text, ph, i)

\* the first match of /\bat\s+<stage>\b/i in text: <<first, last>>, <<0, 0>> when
\* there is none (a stage starts with a letter, so \s+ takes the whole run)
AtFundingMatch(text, stage) ==
    LET hits == {i \in 1..(Len(text) - 1) :
                    /\ WordBoundary(text, i)
                    /\ SubSeq(text, i, i + 1) = "at"
                    /\ RunLength("\\s", text, i + 2) >= 1
                    /\ WordAt(text, stage, i + 2 + RunLength("\\s", text, i + 2))}
    IN  IF hits = {} THEN <<0, 0>>
        ELSE LET i == CHOOSE x \in hits : \A y \in hits : x <= y
             IN  <<i, i + 1 + RunLength("\\s", text, i + 2) + Len(stage)>>

\* the text without the match of atFundingPattern, or else without the first
\* occurrence of the stage; at is what AtFundingMatch found
RemoveFundingStage(text, stage, at) ==
    IF at # <<0, 0>>
    THEN trim(SubSeq(text, 1, at[1] - 1) \o SubSeq(text, at[2] + 1, Len(text)))
    ELSE trim(RemoveFirst(text, stage))

\* the filter and the text after fundingMatch, "" when there was no match
TakeFundingStage(step, fundingMatch) ==
    IF fundingMatch = "" THEN step
    ELSE [filters |-> With(step.filters, "fundingStage", fundingMatch),
          text    |-> RemoveFundingStage(step.text, fundingMatch,
                                         AtFundingMatch(step.text, fundingMatch))]

\* "Extract Funding Stage FIRST"
ExtractFundingStage(step) ==
    IF Truthy(step.filters, "fundingStage") THEN step
    ELSE TakeFundingStage(step, FundingMatch(step.text))

\* "at [Company]"
ExtractCompany(step) ==
    IF Truthy(step.filters, "company") THEN step
    ELSE TakePhrase(step, "company", PhraseMatch("[a-zA-Z0-9\\s]", step.text, "at", 2, 30))

\* NormalizeFilters leaving the location as it was given
NormalizeFiltersLocationAsGiven(filters) ==
    LET role == IF Truthy(filters, "role")
                THEN With(filters, "role", normalizeTitle(filters.role))
                ELSE filters
    IN  IF Truthy(role, "fundingStage")
        THEN With(role, "fundingStage", normalizeFundingStage(role.fundingStage))
        ELSE role

\* step 4: a copy of the filters with location, role and fundingStage normalised
NormalizeFilters(filters) ==
    LET loc   == IF Truthy(filters, "location")
                 THEN With(filters, "location", normalizeLocation(filters.location))
                 ELSE filters
        role  == IF Truthy(loc, "role")
                 THEN With(loc, "role", normalizeTitle(loc.role))
                 ELSE loc
    IN  IF Truthy(role, "fundingStage")
        THEN With(role, "fundingStage", normalizeFundingStage(role.fundingStage))
        ELSE role

\* steps 2, 4 and 5 and the result, extracted being [filters, text] after step 3
ParseResult(query, extracted) ==
    LET expanded   == expandSearchText(extracted.text)
        entityType == InferEntityType(query, normalizeText(query.text))
        enriched   == [text              |-> extracted.text,
                       filters           |-> extracted.filters,
                       normalizedFilters |-> NormalizeFilters(extracted.filters),
                       expandedText      |-> IF expanded = TypeError THEN <<>> ELSE expanded]
    IN  [threw         |-> expanded = TypeError,
         query         |-> IF entityType = "" THEN enriched
                           ELSE With(enriched, "entityType", entityType),
         shared        |-> Has(query, "filters"),
         callerFilters |-> extracted.filters]

\* The call parseAndNormalizeQuery(query):
\*   threw         whether it raised (expandSearchText's TypeError),
\*   query         the ParsedQuery it returned, when it did not raise,
\*   callerFilters query.filters as the call leaves it (the copy enrichedQuery
\*                 shares the caller's filters object, which the extraction
\*                 steps assign to), when the caller passed one.
\* Here steps 1 and 3; ParseResult has the rest.
parseAndNormalizeQuery(query) ==
    ParseResult(query,
        ExtractCompany(ExtractFundingStage(ExtractLocation(
            [filters |-> IF Has(query, "filters") THEN query.filters ELSE EmptyObject,
             text    |-> normalizeText(query.text)]))))

(***************************************************************************)
(* search-implementation-new.ts: the SearchService.                        *)
(*                                                                         *)
(* Money is in millions of dollars and a Date is a number of months since  *)
(* January 2000.                                                           *)
(***************************************************************************)
\* n hundredths
W(n) == n * (Scale \div 100)

\* obj.f?.toLowerCase() || ''
LowerOrEmpty(obj, f) == IF Has(obj, f) THEN toLowerCase(obj[f]) ELSE ""

\* obj.f || {} for an optional object
ObjectOrEmpty(obj, f) == IF Has(obj, f) THEN obj[f] ELSE EmptyObject

\* arr.map(toLowerCase)
LowerAll(arr) == [k \in 1..Len(arr) |-> toLowerCase(arr[k])]

\* this.orgMap.get(name): the last organization of that lowercased name
OrgMapGet(orgs, name) ==
    LET hits == {k \in 1..Len(orgs) : toLowerCase(orgs[k].name) = name}
    IN  IF hits = {} THEN EmptyObject
        ELSE orgs[CHOOSE k \in hits : \A j \in hits : k >= j]

\* one entry of preProcessPeople; companyOrg is {} for undefined
ProcessPerson(person, orgs) ==
    LET titleLower == LowerOrEmpty(person, "title")
        location   == ObjectOrEmpty(person, "location")
    IN  [original      |-> person,
         fullNameLower |-> toLowerCase(person.fullName),
         titleLower    |-> titleLower,
         bioLower      |-> LowerOrEmpty(person, "bio"),
         cityLower     |-> LowerOrEmpty(location, "city"),
         stateLower    |-> LowerOrEmpty(location, "state"),
         countryLower  |-> LowerOrEmpty(location, "country"),
         companyLower  |-> LowerOrEmpty(person, "company"),
         tagsLower     |-> IF Has(person, "tags") THEN LowerAll(person.tags) ELSE <<>>,
         titleTokens   |-> SelectSeq(SplitSpaces(titleLower, 1, ""), LAMBDA t : t # ""),
         companyOrg    |-> IF Truthy(person, "company")
                           THEN OrgMapGet(orgs, toLowerCase(person.company))
                           ELSE EmptyObject]

preProcessPeople(ppl, orgs) == [k \in 1..Len(ppl) |-> ProcessPerson(ppl[k], orgs)]

preProcessOrganizations(orgs) ==
    [k \in 1..Len(orgs) |->
        [original       |-> orgs[k],
         nameLower      |-> toLowerCase(orgs[k].name),
         industryLower  |-> LowerOrEmpty(orgs[k], "industry"),
         investorsLower |-> IF Has(orgs[k], "investors")
                            THEN LowerAll(orgs[k].investors) ELSE <<>>]]

RECURSIVE TokenMax(_, _, _, _)
\* the loop over tokens of scoreMatch, from the k-th token on
TokenMax(maxScore, textLower, tokens, k) ==
    IF k > Len(tokens) THEN maxScore
    ELSE TokenMax(Max(maxScore, Times(calculateFuzzyScore(textLower, tokens[k]), W(90))),
                  textLower, tokens, k + 1)

RECURSIVE ScoreMatchLoop(_, _, _, _, _)
\* the loop over expandedTextsLower of scoreMatch, from the k-th text on
ScoreMatchLoop(maxScore, expandedTextsLower, targetLower, tokens, k) ==
    IF k > Len(expandedTextsLower) THEN maxScore
    ELSE LET textLower == expandedTextsLower[k]
             next == IF includes(targetLower, textLower) THEN Max(maxScore, Scale)
                     ELSE LET fuzzy == Max(maxScore, calculateFuzzyScore(textLower, targetLower))
                          IN  IF fuzzy < Scale THEN TokenMax(fuzzy, textLower, tokens, 1)
                              ELSE fuzzy
         IN  IF next >= Scale THEN next
             ELSE ScoreMatchLoop(next, expandedTextsLower, targetLower, tokens, k + 1)

scoreMatch(expandedTextsLower, targetLower, tokens, weight) ==
    IF targetLower = "" THEN 0
    ELSE Times(ScoreMatchLoop(0, expandedTextsLower, targetLower, tokens, 1), weight)

assignGrade(score) ==
    IF score >= W(80) THEN "perfect"
    ELSE IF score >= W(60) THEN "strong"
    ELSE IF score >= W(40) THEN "moderate"
    ELSE "weak"

\* matches.join(', ')
RECURSIVE Join(_, _)
Join(matches, k) ==
    IF k > Len(matches) THEN ""
    ELSE IF k = Len(matches) THEN matches[k]
    ELSE matches[k] \o ", " \o Join(matches, k + 1)

\* Math.min(0.1, (factCount || 0) / 50)
Completeness(entity) ==
    Min(W(10), ((IF Has(entity, "factCount") THEN entity.factCount ELSE 0) * Scale) \div 50)

\* Math.min(0.05, 12 / (ageMonths + 1)), enrichedAt defaulting to new Date();
\* 12 / 0 is Infinity
Recency(entity, nowT) ==
    LET ageMonths == nowT - (IF Has(entity, "enrichedAt") THEN entity.enrichedAt ELSE nowT)
    IN  IF ageMonths + 1 = 0 THEN W(5)
        ELSE Min(W(5), (12 * Scale) \div (ageMonths + 1))

\* The running state of a scoring function: out is "go" while it runs, "null"
\* once it has returned null and "throw" once it has raised a TypeError.
Start == [out |-> "go", score |-> 0, matches |-> <<>>]

Null == [out |-> "null", score |-> 0, matches |-> <<>>]

Throw == [out |-> "throw", score |-> 0, matches |-> <<>>]

\* score += amount; matches.push(label)
Add(acc, amount, label) ==
    [acc EXCEPT !.score = @ + amount, !.matches = Append(@, label)]

\* if (amount > 0) { score += amount; matches.push(label) }
AddIfPositive(acc, amount, label) == IF amount > 0 THEN Add(acc, amount, label) ELSE acc

\* query.filters?.f is truthy, for a string f
Filter(query, f) == Has(query, "filters") /\ Truthy(query.filters, f)

\* query.filters?.minFunding is truthy
HasMinFunding(query) ==
    Has(query, "filters") /\ Has(query.filters, "minFunding") /\ query.filters.minFunding # 0

\* org?.funding?.latestRound?.type, "" for undefined
LatestRoundType(org) ==
    LET funding == ObjectOrEmpty(org, "funding")
        round   == ObjectOrEmpty(funding, "latestRound")
    IN  IF Has(round, "type") THEN round.type ELSE ""

\* org?.funding?.totalRaised, 0 for undefined
TotalRaised(org) ==
    LET funding == ObjectOrEmpty(org, "funding")
    IN  IF Has(funding, "totalRaised") THEN funding.totalRaised ELSE 0

\* Math.min(1, totalRaised / minFunding) * 0.2
FundingAmount(totalRaised, minFunding) ==
    Times(Min(Scale, (totalRaised * Scale) \div minFunding), W(20))

(***************************************************************************)
(* searchPerson, section by section.                                       *)
(***************************************************************************)
NameScore(pp, query) == scoreMatch(query.expandedText, pp.fullNameLower, <<>>, W(40))

TitleScore(pp, query) == scoreMatch(query.expandedText, pp.titleLower, pp.titleTokens, W(50))

BioScore(pp, query) == scoreMatch(query.expandedText, pp.bioLower, <<>>, W(30))

PersonText(pp, query) ==
    AddIfPositive(AddIfPositive(AddIfPositive(Start,
        NameScore(pp, query), "name match"),
        TitleScore(pp, query), "title match"),
        BioScore(pp, query), "bio match")

PersonLocation(acc, pp, query) ==
    IF acc.out # "go" \/ ~Filter(query, "location") THEN acc
    ELSE IF query.filters.location \in NotAString THEN Throw
    ELSE LET loc  == toLowerCase(query.filters.location)
             best == Max(calculateFuzzyScore(loc, pp.cityLower),
                         Max(calculateFuzzyScore(loc, pp.stateLower),
                             calculateFuzzyScore(loc, pp.countryLower)))
         IN  IF best < W(50) THEN Null
             ELSE Add(acc, Times(best, W(20)), "location match")

PersonRole(acc, pp, query) ==
    IF acc.out # "go" \/ ~Filter(query, "role") THEN acc
    ELSE LET roleLower == toLowerCase(query.filters.role)
             roleScore == scoreMatch(<<roleLower>>, pp.titleLower, pp.titleTokens, W(30))
         IN  IF roleScore < W(10) THEN Null
             ELSE Add(acc, roleScore, "role match")

PersonFundingStage(acc, pp, query) ==
    IF acc.out # "go" \/ ~Filter(query, "fundingStage") THEN acc
    ELSE IF query.filters.fundingStage \in NotAString THEN Throw
    ELSE LET stageFilter == toLowerCase(query.filters.fundingStage)
             type        == LatestRoundType(pp.companyOrg)
             stageScore  == calculateFuzzyScore(stageFilter, toLowerCase(type))
         IN  IF type = "" THEN Null
             ELSE IF stageScore < W(50) THEN Null
             ELSE Add(acc, Times(stageScore, W(30)),
                      "company funding stage match (" \o type \o ")")

PersonMinFunding(acc, pp, query) ==
    IF acc.out # "go" \/ ~HasMinFunding(query) \/ TotalRaised(pp.companyOrg) = 0 THEN acc
    ELSE LET amt == FundingAmount(TotalRaised(pp.companyOrg), query.filters.minFunding)
         IN  [AddIfPositive(acc, amt, "company funding amount match")
                 EXCEPT !.score = acc.score + amt]

\* expandedTextsLower.some(textLower => tagsLower.some(tag => ...))
HasTagMatch(pp, query) ==
    \E k \in 1..Len(query.expandedText) : \E t \in 1..Len(pp.tagsLower) :
        \/ includes(pp.tagsLower[t], query.expandedText[k])
        \/ includes(query.expandedText[k], pp.tagsLower[t])

\* PersonCompany without the requirement of a match on the query text
PersonCompanyWithoutContent(acc, pp, query) ==
    IF acc.out # "go" \/ ~Filter(query, "company") THEN acc
    ELSE LET companyMatchScore == calculateFuzzyScore(toLowerCase(query.filters.company),
                                                      pp.companyLower)
         IN  IF companyMatchScore > 0
             THEN Add(acc, Times(companyMatchScore, W(40)), "company match")
             ELSE Null

PersonCompany(acc, pp, query) ==
    IF acc.out # "go" \/ ~Filter(query, "company") THEN acc
    ELSE LET companyFilter     == toLowerCase(query.filters.company)
             companyMatchScore == calculateFuzzyScore(companyFilter, pp.companyLower)
             hasContentMatch   == \/ NameScore(pp, query) > 0
                                  \/ TitleScore(pp, query) > 0
                                  \/ BioScore(pp, query) > 0
         IN  IF companyMatchScore > 0
             THEN IF ~hasContentMatch /\ ~HasTagMatch(pp, query) THEN Null
                  ELSE Add(acc, Times(companyMatchScore, W(40)), "company match")
             ELSE Null

\* the first tag that contains or is contained in textLower, 0 when none
FirstTagMatch(tagsLower, textLower) ==
    LET hits == {t \in 1..Len(tagsLower) :
                    includes(tagsLower[t], textLower) \/ includes(textLower, tagsLower[t])}
    IN  IF hits = {} THEN 0 ELSE CHOOSE t \in hits : \A u \in hits : t <= u

RECURSIVE PersonTagsLoop(_, _, _, _)
\* "Tags matching (text search)": the loop over expandedTextsLower, from the
\* k-th text on; the break leaves the loop over the tags
PersonTagsLoop(acc, pp, query, k) ==
    IF acc.out # "go" \/ k > Len(query.expandedText) THEN acc
    ELSE LET t == FirstTagMatch(pp.tagsLower, query.expandedText[k])
         IN  PersonTagsLoop(
                IF t = 0 THEN acc
                ELSE Add(acc, W(25), "tag match (" \o pp.tagsLower[t] \o ")"),
                pp, query, k + 1)

PersonTagsFilter(acc, pp, query) ==
    IF acc.out # "go"
       \/ ~(Has(query, "filters") /\ Has(query.filters, "tags") /\ Len(query.filters.tags) > 0)
    THEN acc
    ELSE LET filterTagsLower == LowerAll(query.filters.tags)
             hasMatchingTag  ==
                \E f \in 1..Len(filterTagsLower) : \E t \in 1..Len(pp.tagsLower) :
                    \/ includes(pp.tagsLower[t], filterTagsLower[f])
                    \/ includes(filterTagsLower[f], pp.tagsLower[t])
         IN  IF ~hasMatchingTag THEN Null
             ELSE Add(acc, W(20), "tags filter match")

\* PersonFinish without "Require at least one meaningful match"
PersonFinishWithoutMatches(acc, pp, nowT) ==
    IF acc.out # "go" THEN acc
    ELSE LET score == acc.score + Completeness(pp.original) + Recency(pp.original, nowT)
         IN  IF score > 0
             THEN [out         |-> "result",
                   kind        |-> "person",
                   synthetic   |-> FALSE,
                   entity      |-> pp.original,
                   score       |-> score,
                   matchGrade  |-> assignGrade(score),
                   explanation |-> Join(acc.matches, 1)]
             ELSE Null

\* "Require at least one meaningful match", the boosts and the result
PersonFinish(acc, pp, nowT) ==
    IF acc.out # "go" THEN acc
    ELSE IF Len(acc.matches) = 0 THEN Null
    ELSE LET score == acc.score + Completeness(pp.original) + Recency(pp.original, nowT)
         IN  IF score > 0
             THEN [out         |-> "result",
                   kind        |-> "person",
                   synthetic   |-> FALSE,
                   entity      |-> pp.original,
                   score       |-> score,
                   matchGrade  |-> assignGrade(score),
                   explanation |-> Join(acc.matches, 1)]
             ELSE Null

searchPerson(pp, query, nowT) ==
    PersonFinish(
        PersonTagsFilter(
            PersonTagsLoop(
                PersonCompany(
                    PersonMinFunding(
                        PersonFundingStage(
                            PersonRole(
                                PersonLocation(PersonText(pp, query), pp, query),
                                pp, query),
                            pp, query),
                        pp, query),
                    pp, query),
                pp, query, 1),
            pp, query),
        pp, nowT)

(***************************************************************************)
(* searchExecutive, section by section.                                    *)
(***************************************************************************)
\* "Match on executive name": the first expanded text the name contains
ExecName(acc, exec, query) ==
    IF \E k \in 1..Len(query.expandedText) :
            includes(toLowerCase(exec.name), query.expandedText[k])
    THEN Add(acc, W(40), "executive name match")
    ELSE acc

\* "Match on executive title": the first expanded text with a positive score
ExecTitle(acc, exec, query) ==
    LET titleLower == toLowerCase(exec.title)
        hits == {k \in 1..Len(query.expandedText) :
                    calculateFuzzyScore(query.expandedText[k], titleLower) > 0}
    IN  IF hits = {} THEN acc
        ELSE LET k == CHOOSE x \in hits : \A y \in hits : x <= y
             IN  Add(acc, Times(calculateFuzzyScore(query.expandedText[k], titleLower), W(50)),
                     "executive title match (" \o exec.title \o ")")

\* ExecCompany without the flat boost for the company context
ExecCompanyWithoutContext(acc, org, query) ==
    IF acc.out # "go" THEN acc
    ELSE IF Filter(query, "company")
    THEN LET companyScore == calculateFuzzyScore(toLowerCase(query.filters.company),
                                                 toLowerCase(org.name))
         IN  IF companyScore < W(50) THEN Null
             ELSE Add(acc, Times(companyScore, W(30)), "company match (" \o org.name \o ")")
    ELSE acc

ExecCompany(acc, org, query) ==
    IF acc.out # "go" THEN acc
    ELSE IF Filter(query, "company")
    THEN LET companyScore == calculateFuzzyScore(toLowerCase(query.filters.company),
                                                 toLowerCase(org.name))
         IN  IF companyScore < W(50) THEN Null
             ELSE Add(acc, Times(companyScore, W(30)), "company match (" \o org.name \o ")")
    ELSE Add(acc, W(10), "at " \o org.name)

ExecFundingStage(acc, org, query) ==
    IF acc.out # "go" \/ ~Filter(query, "fundingStage") THEN acc
    ELSE IF LatestRoundType(org) = "" THEN Null
    ELSE IF query.filters.fundingStage \in NotAString THEN Throw
    ELSE LET stageScore == calculateFuzzyScore(toLowerCase(query.filters.fundingStage),
                                               toLowerCase(LatestRoundType(org)))
         IN  IF stageScore < W(50) THEN Null
             ELSE Add(acc, Times(stageScore, W(30)),
                      "company funding stage (" \o LatestRoundType(org) \o ")")

ExecLocation(acc, org, query) ==
    IF acc.out # "go" \/ ~Filter(query, "location") THEN acc
    ELSE IF query.filters.location \in NotAString THEN Throw
    ELSE LET loc      == toLowerCase(query.filters.location)
             location == ObjectOrEmpty(org, "location")
         IN  IF \E f \in {"city", "state", "country"} :
                    Has(location, f) /\ includes(toLowerCase(location[f]), loc)
             THEN Add(acc, W(20), "location match")
             ELSE Null

ExecRole(acc, exec, query) ==
    IF acc.out # "go" \/ ~Filter(query, "role") THEN acc
    ELSE LET roleScore == calculateFuzzyScore(toLowerCase(query.filters.role),
                                              toLowerCase(exec.title))
         IN  IF roleScore < W(30) THEN Null
             ELSE Add(acc, Times(roleScore, W(30)), "role match (" \o exec.title \o ")")

\* the synthetic Person made of an executive
SyntheticPerson(exec, org) ==
    LET base == [id       |-> "exec-" \o org.id \o "-"
                              \o toLowerCase(MapChars("spaceToDash", CollapseSpaces(exec.name, 1), 1)),
                 fullName |-> exec.name,
                 title    |-> exec.title,
                 company  |-> org.name]
    IN  IF Has(org, "location") THEN With(base, "location", org.location) ELSE base

ExecFinish(acc, exec, org) ==
    IF acc.out # "go" THEN acc
    ELSE IF acc.score > 0
    THEN [out         |-> "result",
          kind        |-> "person",
          synthetic   |-> TRUE,
          entity      |-> SyntheticPerson(exec, org),
          score       |-> acc.score,
          matchGrade  |-> assignGrade(acc.score),
          explanation |-> Join(acc.matches, 1)]
    ELSE Null

searchExecutive(exec, org, query) ==
    ExecFinish(
        ExecRole(
            ExecLocation(
                ExecFundingStage(
                    ExecCompany(ExecTitle(ExecName(Start, exec, query), exec, query),
                                org, query),
                    org, query),
                org, query),
            exec, query),
        exec, org)

(***************************************************************************)
(* searchOrganization, section by section.                                 *)
(***************************************************************************)
OrgText(po, query) ==
    AddIfPositive(AddIfPositive(Start,
        scoreMatch(query.expandedText, po.nameLower, <<>>, W(40)), "name match"),
        scoreMatch(query.expandedText, po.industryLower, <<>>, W(30)), "industry match")

OrgIndustry(acc, po, query) ==
    IF acc.out # "go" \/ ~Filter(query, "industry") THEN acc
    ELSE LET industryMatchScore ==
                calculateFuzzyScore(toLowerCase(query.filters.industry), po.industryLower)
         IN  IF industryMatchScore < W(50) THEN Null
             ELSE Add(acc, Times(industryMatchScore, W(20)), "industry filter match")

\* the first investor whose fuzzy score is above 0.6, 0 when none.  The fuzzy
\* score of distance 2 is 0.8 - 0.2, which is 0.6000000000000001 in IEEE
\* doubles and so above 0.6: the scores above 0.6 are those of at least W(60).
FirstInvestorMatch(investorsLower, textLower) ==
    LET hits == {v \in 1..Len(investorsLower) :
                    calculateFuzzyScore(textLower, investorsLower[v]) >= W(60)}
    IN  IF hits = {} THEN 0 ELSE CHOOSE v \in hits : \A u \in hits : v <= u

RECURSIVE OrgInvestorsLoop(_, _, _, _)
\* "Investor search": the loop over expandedTextsLower, from the k-th text on
OrgInvestorsLoop(acc, po, query, k) ==
    IF acc.out # "go" \/ k > Len(query.expandedText) THEN acc
    ELSE LET v == FirstInvestorMatch(po.investorsLower, query.expandedText[k])
         IN  OrgInvestorsLoop(
                IF v = 0 THEN acc
                ELSE Add(acc, Times(calculateFuzzyScore(query.expandedText[k],
                                                        po.investorsLower[v]), W(35)),
                         "investor match (" \o po.investorsLower[v] \o ")"),
                po, query, k + 1)

\* OrgFundingStage as searchPerson has it: no type, or a type that scores
\* below 0.5, excludes the organization
OrgFundingStageHard(acc, po, query) ==
    IF acc.out # "go" \/ ~Filter(query, "fundingStage") THEN acc
    ELSE IF LatestRoundType(po.original) = "" THEN Null
    ELSE IF query.filters.fundingStage \in NotAString THEN Throw
    ELSE LET stageScore ==
                calculateFuzzyScore(toLowerCase(query.filters.fundingStage),
                                    toLowerCase(LatestRoundType(po.original)))
         IN  IF stageScore < W(50) THEN Null
             ELSE Add(acc, Times(stageScore, W(30)),
                      "funding stage match (" \o LatestRoundType(po.original) \o ")")

OrgFundingStage(acc, po, query) ==
    IF acc.out # "go" \/ ~Filter(query, "fundingStage") \/ LatestRoundType(po.original) = ""
    THEN acc
    ELSE IF query.filters.fundingStage \in NotAString THEN Throw
    ELSE LET stageScore ==
                Times(calculateFuzzyScore(toLowerCase(query.filters.fundingStage),
                                          toLowerCase(LatestRoundType(po.original))), W(30))
         IN  AddIfPositive(acc, stageScore,
                           "funding stage match (" \o LatestRoundType(po.original) \o ")")

\* OrgMinFunding as searchPerson has it: a boost that excludes nothing
OrgMinFundingSoft(acc, po, query) ==
    IF acc.out # "go" \/ ~HasMinFunding(query) \/ TotalRaised(po.original) = 0 THEN acc
    ELSE Add(acc, FundingAmount(TotalRaised(po.original), query.filters.minFunding),
             "funding amount match")

OrgMinFunding(acc, po, query) ==
    IF acc.out # "go" \/ ~HasMinFunding(query) THEN acc
    ELSE IF TotalRaised(po.original) = 0
            \/ TotalRaised(po.original) < query.filters.minFunding THEN Null
    ELSE Add(acc, FundingAmount(TotalRaised(po.original), query.filters.minFunding),
             "funding amount match")

OrgFinish(acc, po, nowT) ==
    IF acc.out # "go" THEN acc
    ELSE LET score == acc.score + Completeness(po.original) + Recency(po.original, nowT)
         IN  IF score > 0
             THEN [out         |-> "result",
                   kind        |-> "organization",
                   synthetic   |-> FALSE,
                   entity      |-> po.original,
                   score       |-> score,
                   matchGrade  |-> assignGrade(score),
                   explanation |-> Join(acc.matches, 1)]
             ELSE Null

searchOrganization(po, query, nowT) ==
    OrgFinish(
        OrgMinFunding(
            OrgFundingStage(
                OrgInvestorsLoop(OrgIndustry(OrgText(po, query), po, query), po, query, 1),
                po, query),
            po, query),
        po, nowT)

(***************************************************************************)
(* executeSearch and search.                                               *)
(***************************************************************************)
\* results.push(r) for a scoring call that returned r, within a loop whose
\* state is [threw, results]
Push(state, r) ==
    IF state.threw \/ r.out = "throw" THEN [threw |-> TRUE, results |-> <<>>]
    ELSE IF r.out = "result"
         THEN [state EXCEPT !.results = Append(@, [f \in DOMAIN r \ {"out"} |-> r[f]])]
         ELSE state

RECURSIVE PeopleLoop(_, _, _, _, _)
\* for (const processedPerson of this.processedPeople), from the k-th on
PeopleLoop(state, pps, query, nowT, k) ==
    IF k > Len(pps) \/ state.threw THEN state
    ELSE PeopleLoop(Push(state, searchPerson(pps[k], query, nowT)), pps, query, nowT, k + 1)

\* IsDuplicate comparing the names as they are written
IsDuplicateCaseSensitive(rs, exec) ==
    \E k \in 1..Len(rs) : rs[k].kind = "person" /\ rs[k].entity.fullName = exec.name

\* results.some(r => r.person?.fullName.toLowerCase() === exec.name.toLowerCase())
IsDuplicate(rs, exec) ==
    \E k \in 1..Len(rs) :
        rs[k].kind = "person" /\ toLowerCase(rs[k].entity.fullName) = toLowerCase(exec.name)

RECURSIVE ExecutivesLoop(_, _, _, _, _)
\* for (const exec of org.executives), from the k-th on
ExecutivesLoop(state, org, execs, query, k) ==
    IF k > Len(execs) \/ state.threw THEN state
    ELSE LET execResult == searchExecutive(execs[k], org, query)
         IN  ExecutivesLoop(
                IF execResult.out = "result" /\ IsDuplicate(state.results, execs[k])
                THEN state ELSE Push(state, execResult),
                org, execs, query, k + 1)

RECURSIVE OrgExecutivesLoop(_, _, _, _)
\* for (const org of this.organizations), from the k-th on
OrgExecutivesLoop(state, orgs, query, k) ==
    IF k > Len(orgs) \/ state.threw THEN state
    ELSE OrgExecutivesLoop(
            IF Has(orgs[k], "executives")
            THEN ExecutivesLoop(state, orgs[k], orgs[k].executives, query, 1)
            ELSE state,
            orgs, query, k + 1)

RECURSIVE OrganizationsLoop(_, _, _, _, _)
\* for (const processedOrg of this.processedOrganizations), from the k-th on
OrganizationsLoop(state, pos, query, nowT, k) ==
    IF k > Len(pos) \/ state.threw THEN state
    ELSE OrganizationsLoop(Push(state, searchOrganization(pos[k], query, nowT)),
                           pos, query, nowT, k + 1)

RECURSIVE InsertByScore(_, _)
\* r put into the sorted list rs, after the entries that do not score less
InsertByScore(rs, r) ==
    IF rs = <<>> THEN <<r>>
    ELSE IF Head(rs).score >= r.score THEN <<Head(rs)>> \o InsertByScore(Tail(rs), r)
    ELSE <<r>> \o rs

\* the results left in the order they were pushed in
SortByScoreSkipped(rs, k) == SubSeq(rs, 1, k)

RECURSIVE SortByScore(_, _)
\* results.sort((a, b) => b.score - a.score): a stable sort, descending; the
\* first k entries of rs still to insert
SortByScore(rs, k) ==
    IF k = 0 THEN <<>> ELSE InsertByScore(SortByScore(rs, k - 1), rs[k])

\* "Sort by score descending", unless a scoring function threw
SortResults(state) ==
    IF state.threw THEN state
    ELSE [threw |-> FALSE, results |-> SortByScore(state.results, Len(state.results))]

\* [threw, results]; a loop the entity type leaves out runs over no entries
executeSearch(query, nowT, pps, pos, orgs) ==
    LET entityType  == IF Truthy(query, "entityType") THEN query.entityType ELSE "person"
        withPersons == entityType \in {"person", "both"}
        withOrgs    == entityType \in {"organization", "both"}
    IN  SortResults(
            OrganizationsLoop(
                OrgExecutivesLoop(
                    PeopleLoop([threw |-> FALSE, results |-> <<>>],
                               IF withPersons THEN pps ELSE <<>>, query, nowT, 1),
                    IF withPersons THEN orgs ELSE <<>>, query, 1),
                IF withOrgs THEN pos ELSE <<>>, query, nowT, 1))

\* the caller passed undefined for the query
NoQuery == [undefined |-> TRUE]

\* ValidationError without the check of minFunding
ValidationErrorWithoutMinFunding(query) ==
    IF Has(query, "undefined") THEN "Search query is required"
    ELSE IF ~Truthy(query, "text")
            \/ (Has(query, "typeofText") /\ query.typeofText # "string")
         THEN "Search query text is required and must be a string"
    ELSE IF Len(trim(query.text)) = 0 THEN "Search query text cannot be empty"
    ELSE ""

\* the message of the Error the input validation of search throws, "" when
\* the query is valid
ValidationError(query) ==
    IF Has(query, "undefined") THEN "Search query is required"
    ELSE IF ~Truthy(query, "text")
            \/ (Has(query, "typeofText") /\ query.typeofText # "string")
         THEN "Search query text is required and must be a string"
    ELSE IF Len(trim(query.text)) = 0 THEN "Search query text cannot be empty"
    ELSE IF Has(query, "filters") /\ Has(query.filters, "minFunding")
            /\ query.filters.minFunding < 0
         THEN "minFunding filter cannot be negative"
    ELSE ""

\* "return this.executeSearch(enrichedQuery)": found is [threw, results]
SearchFound(after, enriched, found) ==
    IF found.threw
    THEN [outcome |-> "TypeError", results |-> <<>>,
          parsed |-> enriched, callerQuery |-> after]
    ELSE [outcome |-> "ok", results |-> found.results,
          parsed |-> enriched, callerQuery |-> after]

\* search from "Merge normalized filters" on, p being what
\* parseAndNormalizeQuery(query) gave
SearchParsed(query, p, nowT, pps, pos, orgs) ==
    LET after    == IF p.shared THEN With(query, "filters", p.callerFilters) ELSE query
        enriched == [p.query EXCEPT !.filters = p.query.normalizedFilters]
    IN  IF p.threw
        THEN [outcome |-> "TypeError", results |-> <<>>,
              parsed |-> EmptyObject, callerQuery |-> after]
        ELSE SearchFound(after, enriched, executeSearch(enriched, nowT, pps, pos, orgs))

\* The call search(query):
\*   outcome     "ok", or the message of the Error thrown; "TypeError" for a
\*               TypeError raised by the parser or by a scoring function,
\*   results     the list returned,
\*   parsed      the ParsedQuery handed to executeSearch, {} when none was,
\*   callerQuery the caller's query object after the call.
search(query, nowT, pps, pos, orgs) ==
    IF ValidationError(query) # ""
    THEN [outcome |-> ValidationError(query), results |-> <<>>,
          parsed |-> EmptyObject, callerQuery |-> query]
    ELSE SearchParsed(query, parseAndNormalizeQuery(query), nowT, pps, pos, orgs)

(***************************************************************************)
(* data/sample-data.ts, and records that lack optional fields.             *)
(***************************************************************************)
SarahChen ==
    [id |-> "1", fullName |-> "Sarah Chen", title |-> "Senior Software Engineer",
     company |-> "Google",
     location |-> [city |-> "San Francisco", state |-> "CA", country |-> "USA"],
     bio |-> "Full-stack engineer with 10 years experience. Passionate about distributed systems.",
     tags |-> <<"engineer", "backend">>, enrichedAt |-> 288, factCount |-> 15]

MichaelRodriguez ==
    [id |-> "2", fullName |-> "Michael Rodriguez", title |-> "Chief Technology Officer",
     company |-> "TechStart Inc",
     location |-> [city |-> "San Francisco", state |-> "CA", country |-> "USA"],
     bio |-> "CTO and co-founder. Led engineering at 3 startups. Expert in scaling systems.",
     tags |-> <<"cto", "founder", "engineer">>, enrichedAt |-> 288, factCount |-> 22]

EmilyJohnson ==
    [id |-> "3", fullName |-> "Emily Johnson", title |-> "Software Engineer",
     company |-> "Meta",
     location |-> [city |-> "Menlo Park", state |-> "CA", country |-> "USA"],
     bio |-> "Frontend engineer specializing in React and TypeScript.",
     tags |-> <<"engineer", "frontend">>, enrichedAt |-> 287, factCount |-> 8]

samplePeople == <<SarahChen, MichaelRodriguez, EmilyJohnson>>

TechStartInc ==
    [id |-> "org1", name |-> "TechStart Inc", domain |-> "techstart.com",
     industry |-> "Software",
     location |-> [city |-> "San Francisco", state |-> "CA", country |-> "USA"],
     funding |-> [totalRaised |-> 15, valuation |-> 50,
                  latestRound |-> [type |-> "Series A", amount |-> 10]],
     investors |-> <<"Sequoia Capital", "Andreessen Horowitz", "Y Combinator">>,
     executives |-> <<[name |-> "Michael Rodriguez", title |-> "CTO"],
                      [name |-> "John Smith", title |-> "CEO"]>>,
     enrichedAt |-> 288, factCount |-> 25]

StartupXYZ ==
    [id |-> "org2", name |-> "StartupXYZ", domain |-> "startupxyz.com",
     industry |-> "SaaS",
     location |-> [city |-> "New York", state |-> "NY", country |-> "USA"],
     funding |-> [totalRaised |-> 5, valuation |-> 15,
                  latestRound |-> [type |-> "Seed", amount |-> 5]],
     investors |-> <<"Y Combinator">>,
     enrichedAt |-> 288, factCount |-> 12]

sampleOrganizations == <<TechStartInc, StartupXYZ>>

\* a person with nothing but the required fields
AlexKim == [id |-> "4", fullName |-> "Alex Kim"]

\* a second person named as an executive of TechStart Inc is, at a company
\* that is in no collection, with no enrichment date
MikeTwin ==
    [id |-> "5", fullName |-> "michael rodriguez", title |-> "Backend Engineer",
     company |-> "Initech", location |-> [state |-> "NY"],
     tags |-> <<"engineer", "tech">>, factCount |-> 0]

\* a person of a company that has no funding data, enriched long ago
PatLee ==
    [id |-> "6", fullName |-> "Pat Lee", title |-> "Founder", company |-> "Acme Labs",
     bio |-> "Engineer turned founder.", enrichedAt |-> 0, factCount |-> 60]

sparsePeople == <<AlexKim, MikeTwin, MichaelRodriguez, PatLee>>

\* an organization with nothing but the required fields, one investor and
\* two executives, one of them named as a person is
AcmeLabs ==
    [id |-> "org3", name |-> "Acme Labs", investors |-> <<"Developer Capital">>,
     executives |-> <<[name |-> "ALEX KIM", title |-> "Chief Engineer"],
                      [name |-> "Jo Park", title |-> "CFO"]>>]

sparseOrganizations == <<AcmeLabs, TechStartInc>>

\* the collections a SearchService is constructed with
Datasets ==
    {<<samplePeople, sampleOrganizations>>,
     <<sparsePeople, sparseOrganizations>>,
     <<samplePeople, <<>> >>,
     << <<>>, sparseOrganizations>>}

(***************************************************************************)
(* The queries a caller passes.                                            *)
(***************************************************************************)
QueryTexts ==
    {"CTO", "developer", "Software Developer", "Engineer", "TechStrt", "Sequoia",
     "Michael Rodriguez", "alex kim", "engineer in SF", "engineers at Meta",
     "founder at Series A startups", "engineer in sf at google",
     "engineer at google in sf", "constructor", "zzzz"}

\* undefined stands for a query without a filters object
QueryFilters ==
    {[undefined |-> TRUE],
     EmptyObject,
     [location |-> "SF"],
     [location |-> "NYC"],
     [location |-> "CA"],
     [location |-> "constructor"],
     [role |-> "engineer"],
     [company |-> "Meta"],
     [company |-> "hp"],
     [fundingStage |-> "Series A"],
     [fundingStage |-> "Series B"],
     [tags |-> <<"Backend">>],
     [industry |-> "Software"],
     [minFunding |-> 10],
     [minFunding |-> 15]}

ValidQuery(text, filters, entityType) ==
    LET q1 == [text |-> text]
        q2 == IF Has(filters, "undefined") THEN q1 ELSE With(q1, "filters", filters)
    IN  IF entityType = "" THEN q2 ELSE With(q2, "entityType", entityType)

\* every text without filters, every filter with two of the texts, every
\* filter with an organization's name and with a text that matches nothing
\* in a search for organizations, and texts with a phrase the parser takes
\* out, with and without a filters object
ValidQueries ==
    {ValidQuery(t, [undefined |-> TRUE], e) : t \in QueryTexts,
        e \in {"", "person", "organization", "both"}}
    \cup {ValidQuery(t, f, e) : t \in {"Engineer", "CTO"}, f \in QueryFilters,
                                e \in {"", "both"}}
    \cup {ValidQuery(t, f, "organization") : t \in {"StartupXYZ", "zzzz"}, f \in QueryFilters}
    \cup {ValidQuery("startups", [undefined |-> TRUE], e) :
                e \in {"", "person", "organization", "both"}}
    \cup {[text |-> "backend engineer"],
          [text |-> "in SF"],
          [text |-> "engineer in SF", filters |-> EmptyObject],
          [text |-> "engineers at Meta", filters |-> EmptyObject],
          [text |-> "engineer in SF", filters |-> [location |-> "NYC"]],
          [text |-> "engineers at Meta", filters |-> [company |-> "Google"]],
          [text |-> "founder at Series A startups", filters |-> [fundingStage |-> "Seed"]]}

InvalidQueries ==
    {NoQuery,
     [entityType |-> "person"],
     [text |-> ""],
     [text |-> "   "],
     [text |-> "42", typeofText |-> "number"],
     [text |-> "test", filters |-> [minFunding |-> -1]],
     [text |-> "CTO", filters |-> [minFunding |-> -1, location |-> "SF"],
      entityType |-> "organization"]}

Queries == ValidQueries \cup InvalidQueries

\* Date.now() when the service is constructed
Now0 == 300

(***************************************************************************)
(* The service: its construction, a call of search, the clock.             *)
(***************************************************************************)
Init ==
    /\ \E d \in Datasets :
        /\ people = d[1]
        /\ organizations = d[2]
        /\ processedPeople = preProcessPeople(d[1], d[2])
        /\ processedOrganizations = preProcessOrganizations(d[2])
    /\ callerQuery \in Queries
    /\ now = Now0
    /\ outcome = "none"
    /\ results = <<>>
    /\ parsed = EmptyObject
    /\ fn = ""
    /\ args = <<>>
    /\ ret = <<>>

Search ==
    \E r \in {search(callerQuery, now, processedPeople, processedOrganizations,
                      organizations)} :
        /\ outcome' = r.outcome
        /\ results' = r.results
        /\ parsed' = r.parsed
        /\ callerQuery' = r.callerQuery
        /\ UNCHANGED <<people, organizations, processedPeople, processedOrganizations,
                       now, fn, args, ret>>

Tick ==
    /\ now < Now0 + MaxTicks
    /\ now' = now + 1
    /\ UNCHANGED <<people, organizations, processedPeople, processedOrganizations,
                   callerQuery, outcome, results, parsed, fn, args, ret>>

Next == Search \/ Tick

Spec == Init /\ [][Next]_vars

(***************************************************************************)
(* The utility functions, each applied to inputs drawn from bounded sets.  *)
(***************************************************************************)
RECURSIVE Strings(_, _)
\* the strings over the characters of alphabet of length at most n
Strings(alphabet, n) ==
    IF n = 0 THEN {""}
    ELSE LET shorter == Strings(alphabet, n - 1)
         IN  shorter \cup {s \o c : s \in {x \in shorter : Len(x) = n - 1}, c \in alphabet}

RECURSIVE Phrases(_, _)
\* the phrases of at least one and at most n of the words
Phrases(words, n) ==
    IF n = 1 THEN words
    ELSE Phrases(words, n - 1) \cup {p \o " " \o w : p \in Phrases(words, n - 1), w \in words}

TitleInputs ==
    Phrases({"senior", "backend", "frontend", "software", "engineer", "eng", "dev",
             "developer", "cto", "vp"}, MaxTokens)
    \cup {"CTO/VP Eng", " Senior Dev "}

LocationInputs ==
    Strings({"s", "F", " "}, MaxLen)
    \cup {"SF", "San Fran", "Bay Area", "NYC", "ny", "LA", " Austin ", "Menlo Park",
          "san francisco", "New York", "los angeles", "constructor", "__proto__"}

FundingStageInputs ==
    {"Seed", "seed round", "Pre-Seed", "pre_seed", "preseed", "Series A", "series-b",
     "Series C Round", "series d", "IPO", "public", "Early Stage", "late-stage",
     "round", "Growth", "constructor", ""}

LevenshteinInputs ==
    {<<a, b, m>> : a \in Strings({"a", "b"}, MaxLen), b \in Strings({"a", "b"}, MaxLen),
                   m \in 0..MaxDistanceBound}

\* a query and two targets: all short strings, and a query long enough for
\* floor(0.3 * length) to exceed 2 with targets around it
FuzzyInputs ==
    {<<q, t1, t2>> : q \in Strings({"a", "b"}, MaxFuzzyLen) \ {""},
                     t1 \in Strings({"a", "b"}, MaxFuzzyLen),
                     t2 \in Strings({"a", "b"}, MaxFuzzyLen)}
    \cup {<<"engineering", t1, t2>> :
            t1 \in {"engineering", "enginering", "engneerin", "enginxxring", "enginer",
                    "enxinxxring", "reverse engineering", "xxgineerxxg", ""},
            t2 \in {"engineering", "enginering", "engneerin", "enginxxring", "enginer",
                    "enxinxxring", "reverse engineering", "xxgineerxxg", ""}}

\* queries whose text names a funding stage, a place or a company, most of
\* them without a filters object
ParseInputs ==
    {[text |-> t] :
        t \in {"CTO at Series A", "founder at Series A startups", "founder at series b",
               "cto at series c", "ceo at Series D startups", "founders at series e",
               "cto at seed", "ceo at IPO", "founders at pre-seed", "founders at preseed",
               "founders at seed or at series a", "seed founders at series a",
               "founders in boston at seed", "pre-seed startups", "Pre-Seed founders",
               "pre seed founders", "preseed companies", "series a", "in SF", "at Meta",
               "engineer in SF", "software dev at meta", "cto"}}
    \cup {[text |-> "founder at series a", filters |-> [company |-> "Acme"]],
          [text |-> "founder at series a", filters |-> [fundingStage |-> "Seed"]],
          [text |-> "pre-seed startups", filters |-> [fundingStage |-> "Series A"]],
          [text |-> "pre-seed startups", filters |-> EmptyObject]}

UtilInputs ==
    [parseAndNormalizeQuery |-> {<<x>> : x \in ParseInputs},
     normalizeTitle        |-> {<<x>> : x \in TitleInputs},
     normalizeLocation     |-> {<<x>> : x \in LocationInputs},
     normalizeFundingStage |-> {<<x>> : x \in FundingStageInputs},
     levenshteinDistance   |-> LevenshteinInputs,
     calculateFuzzyScore   |-> FuzzyInputs]

InitUtil ==
    /\ people = <<>>
    /\ organizations = <<>>
    /\ processedPeople = <<>>
    /\ processedOrganizations = <<>>
    /\ callerQuery = NoQuery
    /\ now = Now0
    /\ outcome = "none"
    /\ results = <<>>
    /\ parsed = EmptyObject
    /\ fn \in DOMAIN UtilInputs
    /\ args \in UtilInputs[fn]
    /\ ret = <<>>

\* ret' = <<v>>: the function applied once to the arguments
Return(name, v) ==
    /\ fn = name
    /\ ret = <<>>
    /\ ret' = <<v>>
    /\ UNCHANGED <<people, organizations, processedPeople, processedOrganizations,
                   callerQuery, now, outcome, results, parsed, fn, args>>

\* ret[1] is [threw, query, shared, callerFilters], as parseAndNormalizeQuery
\* gives them
ApplyParseAndNormalizeQuery ==
    Return("parseAndNormalizeQuery", parseAndNormalizeQuery(args[1]))

ApplyNormalizeTitle == Return("normalizeTitle", normalizeTitle(args[1]))

ApplyNormalizeLocation == Return("normalizeLocation", normalizeLocation(args[1]))

ApplyNormalizeFundingStage ==
    Return("normalizeFundingStage", normalizeFundingStage(args[1]))

ApplyLevenshteinDistance ==
    Return("levenshteinDistance", levenshteinDistance(args[1], args[2], args[3]))

\* the query scored against each of the two targets
ApplyCalculateFuzzyScore ==
    Return("calculateFuzzyScore",
           <<calculateFuzzyScore(args[1], args[2]), calculateFuzzyScore(args[1], args[3])>>)

NextUtil ==
    \/ ApplyParseAndNormalizeQuery
    \/ ApplyNormalizeTitle
    \/ ApplyNormalizeLocation
    \/ ApplyNormalizeFundingStage
    \/ ApplyLevenshteinDistance
    \/ ApplyCalculateFuzzyScore

SpecUtil == InitUtil /\ [][NextUtil]_vars

\* the function name has been applied
Returned(name) == fn = name /\ ret # <<>>

(***************************************************************************)
(* Properties of search.                                                   *)
(***************************************************************************)
\* the real Person records among the results (the synthetic ones are built
\* from an organization's executives)
IsRealPerson(r) == r.kind = "person" /\ ~r.synthetic

IsSyntheticPerson(r) == r.kind = "person" /\ r.synthetic

ResultIndices == 1..Len(results)

\* a usable query: present, its text a string with a non-whitespace
\* character, minFunding absent or not negative
IsValidQuery(q) ==
    /\ ~Has(q, "undefined")
    /\ Has(q, "text")
    /\ ~(Has(q, "typeofText") /\ q.typeofText # "string")
    /\ \E i \in 1..Len(q.text) : ~IsSpace(Ch(q.text, i))
    /\ ~(Has(q, "filters") /\ Has(q.filters, "minFunding") /\ q.filters.minFunding < 0)

\* C1: the list a successful search returns is sorted by score, no entry
\* scoring less than the entry after it.
C1_SortedByScore ==
    outcome = "ok" =>
        \A i \in ResultIndices : \A j \in ResultIndices :
            i < j => results[i].score >= results[j].score

\* a list with a real person, a synthetic person and an organization, of
\* more than one score
C1_Witness ==
    /\ outcome = "ok"
    /\ \E i \in ResultIndices : IsRealPerson(results[i])
    /\ \E i \in ResultIndices : IsSyntheticPerson(results[i])
    /\ \E i \in ResultIndices : results[i].kind = "organization"
    /\ \E i \in ResultIndices : \E j \in ResultIndices : results[i].score > results[j].score

\* C2: a missing query, a missing, non-string, empty or all-whitespace text
\* and a negative minFunding end the call with a validation error; nothing
\* is parsed, nothing is returned and the caller's query is left as it was.
C2_ValidationFirst ==
    [][(Search /\ ~IsValidQuery(callerQuery)) =>
            /\ outcome' \in {"Search query is required",
                             "Search query text is required and must be a string",
                             "Search query text cannot be empty",
                             "minFunding filter cannot be negative"}
            /\ results' = <<>>
            /\ parsed' = EmptyObject
            /\ callerQuery' = callerQuery]_vars

\* each of the four errors is raised
C2_Witness ==
    /\ outcome = "minFunding filter cannot be negative"
    /\ Has(callerQuery, "filters")
    /\ callerQuery.filters.minFunding < 0
    /\ results = <<>>

\* C3: search ends normally for every valid query.
C3_ValidQueryNeverRaises ==
    (outcome # "none" /\ IsValidQuery(callerQuery)) => outcome = "ok"

\* the person has none of what the filter f refers to
LacksData(person, f) ==
    CASE f = "location" ->
            LET location == ObjectOrEmpty(person, "location")
            IN  ~Truthy(location, "city") /\ ~Truthy(location, "state")
                /\ ~Truthy(location, "country")
      [] f = "role" -> ~Truthy(person, "title")
      [] f = "company" -> ~Truthy(person, "company")
      [] f = "fundingStage" ->
            LatestRoundType(ProcessPerson(person, organizations).companyOrg) = ""
      [] f = "tags" -> ~Has(person, "tags") \/ person.tags = <<>>

\* the filter f is given to the search that produced the results
FilterGiven(f) ==
    /\ Has(parsed, "filters")
    /\ Has(parsed.filters, f)
    /\ IF f = "tags" THEN parsed.filters.tags # <<>> ELSE parsed.filters[f] # ""

\* C4: a person without the data a given hard filter refers to is not
\* among the results.
C4_MissingDataExcludes ==
    outcome = "ok" =>
        \A f \in {"location", "role", "company", "fundingStage", "tags"} :
            FilterGiven(f) =>
                \A i \in ResultIndices :
                    IsRealPerson(results[i]) => ~LacksData(results[i].entity, f)

\* the entries of the results for a name, compared without case
EntriesNamed(name) ==
    {i \in ResultIndices :
        results[i].kind = "person" /\ toLowerCase(results[i].entity.fullName) = toLowerCase(name)}

\* the executives that qualify for the search that produced the results
QualifyingExecutives ==
    {e \in UNION {{[exec |-> o.executives[k], org |-> o] : k \in 1..Len(o.executives)} :
                    o \in {organizations[n] : n \in {m \in 1..Len(organizations) :
                                                        Has(organizations[m], "executives")}}} :
        searchExecutive(e.exec, e.org, parsed).out = "result"}

\* C5 as stated: a real person and a qualifying executive of the same name
\* leave exactly one entry for that name, the real one.
C5_ExactlyOneEntry ==
    outcome = "ok" =>
        \A e \in QualifyingExecutives :
            (\E i \in EntriesNamed(e.exec.name) : IsRealPerson(results[i])) =>
                /\ Cardinality(EntriesNamed(e.exec.name)) = 1
                /\ \A i \in EntriesNamed(e.exec.name) : IsRealPerson(results[i])

\* C5: a real person and a qualifying executive of the same name leave no
\* synthetic entry for that name; every entry for it is a real Person record,
\* and every real Person record of that name that qualifies is among them.
C5_NoSyntheticTwin ==
    outcome = "ok" =>
        \A e \in QualifyingExecutives :
            (\E i \in EntriesNamed(e.exec.name) : IsRealPerson(results[i])) =>
                /\ \A i \in EntriesNamed(e.exec.name) : IsRealPerson(results[i])
                /\ \A k \in 1..Len(processedPeople) :
                        (/\ processedPeople[k].fullNameLower = toLowerCase(e.exec.name)
                         /\ searchPerson(processedPeople[k], parsed, now).out = "result")
                        => \E i \in EntriesNamed(e.exec.name) :
                                results[i].entity = processedPeople[k].original

\* a real person is returned whose name, in another case, is that of an
\* executive who qualifies
C5_Witness ==
    /\ outcome = "ok"
    /\ \E e \in QualifyingExecutives :
        /\ \E i \in EntriesNamed(e.exec.name) :
                IsRealPerson(results[i]) /\ results[i].entity.fullName # e.exec.name
        /\ \A i \in EntriesNamed(e.exec.name) : IsRealPerson(results[i])

\* the processed form of a person of the collection
Processed(person) ==
    CHOOSE pp \in {processedPeople[k] : k \in 1..Len(processedPeople)} : pp.original = person

\* C6: every real person returned has a non-empty explanation, and, when the
\* query has no filters, a name, title, bio or tag match on the query text.
C6_RealPersonHasSignal ==
    outcome = "ok" =>
        \A i \in ResultIndices :
            IsRealPerson(results[i]) =>
                /\ results[i].explanation # ""
                /\ (\A f \in {"location", "role", "company", "fundingStage", "tags",
                              "minFunding", "industry"} :
                        ~Has(parsed.filters, f))
                   => LET pp == Processed(results[i].entity)
                      IN  \/ NameScore(pp, parsed) > 0
                          \/ TitleScore(pp, parsed) > 0
                          \/ BioScore(pp, parsed) > 0
                          \/ HasTagMatch(pp, parsed)

\* of the collection, one person is returned and another, whose profile is
\* complete and recent, is not
C6_Witness ==
    /\ outcome = "ok"
    /\ \E i \in ResultIndices : IsRealPerson(results[i])
    /\ DOMAIN parsed.filters = {}
    /\ \E k \in 1..Len(people) :
        /\ Completeness(people[k]) > 0
        /\ Recency(people[k], now) > 0
        /\ \A i \in ResultIndices : results[i].entity # people[k]

(***************************************************************************)
(* Properties of the utility functions.                                    *)
(***************************************************************************)
\* C7: normalizeTitle applied to its own result returns that result.
C7_NormalizeTitleIdempotent ==
    Returned("normalizeTitle") => normalizeTitle(ret[1]) = ret[1]

\* C8: normalizeLocation and normalizeFundingStage applied to their own
\* results return those results, and a location that is no key of the
\* location table comes back lowercased and trimmed.
C8_LocationAndStageIdempotent ==
    /\ Returned("normalizeLocation") =>
        /\ normalizeLocation(ret[1]) = ret[1]
        /\ trim(toLowerCase(args[1])) \notin DOMAIN LocationMappings
           => ret[1] = trim(toLowerCase(args[1]))
    /\ Returned("normalizeFundingStage") => normalizeFundingStage(ret[1]) = ret[1]

RECURSIVE EditRow(_, _, _, _)
\* the row of edit distances from the first i characters of a to every
\* prefix of b, given the row for i - 1 and the part of the row built so far
EditRow(above, a, b, row) ==
    LET j == Len(row)
    IN  IF j > Len(b) THEN row
        ELSE EditRow(above, a, b,
                     Append(row, Min(Min(above[j + 1] + 1, row[j] + 1),
                                     above[j] + (IF a = Ch(b, j) THEN 0 ELSE 1))))

RECURSIVE EditRows(_, _, _, _)
EditRows(above, a, b, i) ==
    IF i > Len(a) THEN above
    ELSE EditRows(EditRow(above, Ch(a, i), b, <<i>>), a, b, i + 1)

\* the least number of insertions, deletions and substitutions of one
\* character that turn a into b
EditDistance(a, b) == EditRows([k \in 1..(Len(b) + 1) |-> k - 1], a, b, 1)[Len(b) + 1]

\* C9 as stated: the result is the edit distance when that is at most
\* maxDistance, and maxDistance + 1 otherwise.
C9_ExactlyMaxPlusOne ==
    Returned("levenshteinDistance") =>
        ret[1] = IF EditDistance(args[1], args[2]) <= args[3]
                 THEN EditDistance(args[1], args[2])
                 ELSE args[3] + 1

\* C9: the result is the edit distance when that is at most maxDistance;
\* otherwise it is more than maxDistance, either maxDistance + 1 or the edit
\* distance itself.
C9_DistanceOrBeyond ==
    Returned("levenshteinDistance") =>
        LET d == EditDistance(args[1], args[2])
        IN  IF d <= args[3] THEN ret[1] = d
            ELSE ret[1] \in {args[3] + 1, d}

\* two strings whose lengths differ by no more than maxDistance and whose
\* edit distance, more than maxDistance + 1, is what the call returns
C9_Witness ==
    /\ Returned("levenshteinDistance")
    /\ EditDistance(args[1], args[2]) > args[3] + 1
    /\ ret[1] = EditDistance(args[1], args[2])
    /\ Abs(Len(args[1]) - Len(args[2])) <= args[3]

\* the distance beyond which a target scores nothing
FuzzyMaxDistance(q) == Max(2, (3 * Len(q)) \div 10)

\* C10 as stated: of two targets the one nearer to the query scores no less,
\* and a target further than max(2, floor(0.3 * |query|)) scores 0.
C10_MonotoneAndZeroBeyond ==
    Returned("calculateFuzzyScore") =>
        LET d1 == EditDistance(args[1], args[2])
            d2 == EditDistance(args[1], args[3])
        IN  /\ d1 <= d2 => ret[1][1] >= ret[1][2]
            /\ d1 > FuzzyMaxDistance(args[1]) => ret[1][1] = 0
            /\ d2 > FuzzyMaxDistance(args[1]) => ret[1][2] = 0

\* C10: among targets that do not contain the query, the one nearer to the
\* query scores no less, and one further than max(2, floor(0.3 * |query|))
\* scores 0.
C10_MonotoneWithoutSubstring ==
    Returned("calculateFuzzyScore") =>
        LET d1 == EditDistance(args[1], args[2])
            d2 == EditDistance(args[1], args[3])
            in1 == includes(args[2], args[1])
            in2 == includes(args[3], args[1])
        IN  /\ (~in1 /\ ~in2 /\ d1 <= d2) => ret[1][1] >= ret[1][2]
            /\ (~in1 /\ d1 > FuzzyMaxDistance(args[1])) => ret[1][1] = 0
            /\ (~in2 /\ d2 > FuzzyMaxDistance(args[1])) => ret[1][2] = 0

\* a query of more than ten characters, a target at distance 3 scoring
\* more than nothing and a target beyond distance 3 scoring nothing
C10_Witness ==
    /\ Returned("calculateFuzzyScore")
    /\ Len(args[1]) > 10
    /\ ~includes(args[2], args[1])
    /\ ~includes(args[3], args[1])
    /\ EditDistance(args[1], args[2]) = 3
    /\ EditDistance(args[1], args[3]) = 4
    /\ ret[1][1] > 0
    /\ ret[1][2] = 0

(***************************************************************************)
(* Properties of search on the sample data.                                *)
(***************************************************************************)
\* the service was constructed with the sample data
OnSampleData == people = samplePeople /\ organizations = sampleOrganizations

\* the last call was search({text, entityType}) or search({text}) and
\* the search it made was one for persons
PersonQuery(text) ==
    /\ outcome = "ok"
    /\ callerQuery.text = text
    /\ ~Has(callerQuery, "filters")
    /\ Has(parsed, "entityType")
    /\ parsed.entityType = "person"

\* the results hold a person of that name
PersonReturned(name) ==
    \E i \in ResultIndices : results[i].kind = "person" /\ results[i].entity.fullName = name

\* C11: on the sample data the person query "CTO" without filters returns
\* Michael Rodriguez, and it returns John Smith, the executive whose title is
\* "CEO", exactly when "ceo" is one of the variants "cto" expands to.
C11_JohnSmithOnlyBySynonym ==
    (OnSampleData /\ PersonQuery("CTO")) =>
        /\ PersonReturned("Michael Rodriguez")
        /\ PersonReturned("John Smith") <=> InSeq("ceo", expandSearchText("cto"))

\* the last call was search({text, entityType: "organization"})
OrganizationQuery(text) ==
    /\ outcome = "ok"
    /\ callerQuery.text = text
    /\ ~Has(callerQuery, "filters")
    /\ Has(parsed, "entityType")
    /\ parsed.entityType = "organization"

\* what the name of an organization adds to its score
OrgNameScore(org) == scoreMatch(parsed.expandedText, toLowerCase(org.name), <<>>, W(40))

\* C12: on the sample data the organization query "TechStrt" returns
\* TechStart Inc first, with a name match that adds to its score, and with a
\* score above that of every organization whose name does not match.
C12_TechStartTopByFuzzyMatch ==
    (OnSampleData /\ OrganizationQuery("TechStrt")) =>
        /\ results # <<>>
        /\ results[1].kind = "organization"
        /\ results[1].entity.name = "TechStart Inc"
        /\ OrgNameScore(TechStartInc) > 0
        /\ \A i \in ResultIndices :
                (results[i].kind = "organization" /\ OrgNameScore(results[i].entity) = 0)
                => results[1].score > results[i].score

(***************************************************************************)
(* Properties of synonym expansion and of the filters.                     *)
(***************************************************************************)
\* the search that produced the results scored the persons
PersonsSearched ==
    ~Has(parsed, "entityType") \/ parsed.entityType \in {"person", "both"}

\* the search that produced the results scored the organizations
OrganizationsSearched ==
    Has(parsed, "entityType") /\ parsed.entityType \in {"organization", "both"}

\* the text handed to expandSearchText, lowercased and trimmed, and its words
ExpandedKeys ==
    LET textLower == trim(toLowerCase(parsed.text))
        words     == SplitSpaces(textLower, 1, "")
    IN  {textLower} \cup {words[k] : k \in 1..Len(words)}

\* the real person of the collection is among the results, with a title match
ReturnedWithTitleMatch(person) ==
    \E i \in ResultIndices :
        /\ IsRealPerson(results[i])
        /\ results[i].entity = person
        /\ includes(results[i].explanation, "title match")

\* C13: the variants a search expands its text to contain the text itself,
\* lowercased and trimmed, and every variant the synonym table lists for the
\* whole text and for each of its words; and a search for persons without
\* filters returns, with a title match, every person whose title contains
\* one of the variants.
C13_ExpansionAddsVariants ==
    outcome = "ok" =>
        /\ InSeq(trim(toLowerCase(parsed.text)), parsed.expandedText)
        /\ \A key \in ExpandedKeys \cap DOMAIN Synonyms :
                \A k \in 1..Len(Synonyms[key]) : InSeq(Synonyms[key][k], parsed.expandedText)
        /\ (PersonsSearched /\ DOMAIN parsed.filters = {}) =>
                \A k \in 1..Len(people) :
                    (/\ Truthy(people[k], "title")
                     /\ \E v \in 1..Len(parsed.expandedText) :
                            includes(toLowerCase(people[k].title), parsed.expandedText[v]))
                    => ReturnedWithTitleMatch(people[k])

\* the query "developer", which no title of the sample data contains, returns
\* Sarah Chen, the Senior Software Engineer, by the variant "software engineer"
C13_Witness ==
    /\ OnSampleData
    /\ PersonQuery("developer")
    /\ ~includes(toLowerCase(SarahChen.title), "developer")
    /\ InSeq("developer", parsed.expandedText)
    /\ InSeq("software engineer", parsed.expandedText)
    /\ ReturnedWithTitleMatch(SarahChen)

\* the query has a location filter that is a key of the location table
HasLocationAlias(q) ==
    /\ IsValidQuery(q)
    /\ Has(q, "filters")
    /\ Truthy(q.filters, "location")
    /\ trim(toLowerCase(q.filters.location)) \in DOMAIN LocationMappings

\* the query with the canonical value in the place of the alias
WithCanonicalLocation(q) ==
    With(q, "filters",
         With(q.filters, "location", LocationMappings[trim(toLowerCase(q.filters.location))]))

\* C14: a search for persons whose location filter is an alias of the location
\* table returns the list the same search with the canonical value returns;
\* on the sample data the text "Engineer" with location "SF" returns Sarah
\* Chen and does not return Emily Johnson.
C14_AliasAsCanonical ==
    [][(Search /\ HasLocationAlias(callerQuery)) =>
            /\ outcome' = "ok"
            /\ (~Has(parsed', "entityType") \/ parsed'.entityType \in {"person", "both"}) =>
                    results' = search(WithCanonicalLocation(callerQuery), now, processedPeople,
                                      processedOrganizations, organizations).results
            /\ (OnSampleData /\ callerQuery.text = "Engineer"
                    /\ callerQuery.filters.location = "SF") =>
                    /\ \E i \in 1..Len(results') : results'[i].entity = SarahChen
                    /\ \A i \in 1..Len(results') : results'[i].entity # EmilyJohnson]_vars

\* "Engineer" with location "SF" on the sample data: Sarah Chen is returned
\* with a location match, Emily Johnson of Menlo Park is not
C14_Witness ==
    /\ OnSampleData
    /\ outcome = "ok"
    /\ callerQuery.text = "Engineer"
    /\ Has(callerQuery, "filters")
    /\ Has(callerQuery.filters, "location")
    /\ callerQuery.filters.location = "SF"
    /\ parsed.filters.location = "san francisco"
    /\ \E i \in ResultIndices :
            results[i].entity = SarahChen /\ includes(results[i].explanation, "location match")
    /\ \A i \in ResultIndices : results[i].entity # EmilyJohnson

\* C15: when organizations are searched with a minFunding filter above 0,
\* every organization returned has a totalRaised, and it is at least
\* minFunding: an organization without one, or with less, is not returned.
C15_MinFundingIsHard ==
    (outcome = "ok" /\ OrganizationsSearched /\ HasMinFunding(parsed)) =>
        \A i \in ResultIndices :
            results[i].kind = "organization" =>
                /\ Has(results[i].entity, "funding")
                /\ Has(results[i].entity.funding, "totalRaised")
                /\ results[i].entity.funding.totalRaised >= parsed.filters.minFunding

\* "StartupXYZ" with minFunding 10 on the sample data: TechStart Inc, which
\* raised 15, is returned, and StartupXYZ, which raised 5 and whose name is
\* the text, is not
C15_Witness ==
    /\ OnSampleData
    /\ outcome = "ok"
    /\ OrganizationsSearched
    /\ HasMinFunding(parsed)
    /\ parsed.filters.minFunding = 10
    /\ OrgNameScore(StartupXYZ) = W(40)
    /\ \E i \in ResultIndices : results[i].entity = TechStartInc
    /\ \A i \in ResultIndices : results[i].entity # StartupXYZ

\* the latest-round type of the organization the person's company name links
\* to, "" when there is no such organization or it has no such type
LinkedRoundType(person) == LatestRoundType(Processed(person).companyOrg)

\* C16: when persons are searched with a fundingStage filter, every real
\* person returned is of a company that links to an organization of the
\* collection whose latest-round type is the stage asked for.
C16_FundingStageIsExact ==
    (outcome = "ok" /\ PersonsSearched /\ FilterGiven("fundingStage")) =>
        \A i \in ResultIndices :
            IsRealPerson(results[i]) =>
                /\ LinkedRoundType(results[i].entity) # ""
                /\ normalizeFundingStage(LinkedRoundType(results[i].entity))
                        = parsed.filters.fundingStage

(***************************************************************************)
(* Properties of the scores and of the state of the service.               *)
(***************************************************************************)
\* C17: every score of a list search returns is at least 0.0 and at most 1.0.
C17_ScoreWithinUnitInterval ==
    outcome = "ok" =>
        \A i \in ResultIndices : results[i].score >= 0 /\ results[i].score <= Scale

\* C18: a call of search leaves the collections and the caches built at
\* construction as they were, and a search whose parsed query is that of
\* the search before it returns the scores and results that one returned.
C18_ScoringIsPure ==
    [][Search =>
            /\ people' = people
            /\ organizations' = organizations
            /\ processedPeople' = processedPeople
            /\ processedOrganizations' = processedOrganizations
            /\ (outcome = "ok" /\ outcome' = "ok" /\ parsed' = parsed) => results' = results]_vars

(***************************************************************************)
(* Properties of the parser.                                               *)
(***************************************************************************)
\* query texts with an "in <location>" and an "at <company>" phrase, in
\* either order, with what the phrases name and the text around them
TwoPhraseTexts ==
    {[text |-> "engineer in sf at google", location |-> "sf", company |-> "google",
      rest |-> "engineer"],
     [text |-> "engineer at google in sf", location |-> "sf", company |-> "google",
      rest |-> "engineer"]}

\* C19: a text with an "in <location>" and an "at <company>" phrase, given
\* without filters, is parsed to the location filter normalizeLocation gives
\* for the location, to the company filter the company and to the text
\* without the two phrases, whichever phrase comes first.
C19_BothPhrasesExtracted ==
    outcome = "ok" =>
        \A t \in TwoPhraseTexts :
            (callerQuery.text = t.text /\ ~Has(callerQuery, "filters")) =>
                /\ Has(parsed.filters, "location")
                /\ parsed.filters.location = normalizeLocation(t.location)
                /\ Has(parsed.filters, "company")
                /\ parsed.filters.company = t.company
                /\ parsed.text = t.rest

(***************************************************************************)
(* Properties of the search for organizations.                             *)
(***************************************************************************)
\* the organization fails the industry filter of the search
FailsIndustry(org) ==
    /\ FilterGiven("industry")
    /\ calculateFuzzyScore(toLowerCase(parsed.filters.industry),
                           LowerOrEmpty(org, "industry")) < W(50)

\* the organization fails the minFunding filter of the search
FailsMinFunding(org) ==
    /\ HasMinFunding(parsed)
    /\ TotalRaised(org) < parsed.filters.minFunding

\* C20: a search for organizations returns every organization of the
\* collection that fails neither the industry filter nor the minFunding
\* filter, whatever fundingStage filter is given and whether or not
\* anything of the organization matches.
C20_OnlyIndustryAndMinFundingExclude ==
    (outcome = "ok" /\ OrganizationsSearched) =>
        \A k \in 1..Len(organizations) :
            (~FailsIndustry(organizations[k]) /\ ~FailsMinFunding(organizations[k]))
            => \E i \in ResultIndices :
                    results[i].kind = "organization" /\ results[i].entity = organizations[k]

\* with a fundingStage filter, an organization without a latest round and an
\* organization at another stage are returned, with nothing to explain them
C20_Witness ==
    /\ outcome = "ok"
    /\ OrganizationsSearched
    /\ FilterGiven("fundingStage")
    /\ parsed.filters.fundingStage = "series b"
    /\ \E i \in ResultIndices :
            /\ results[i].entity = AcmeLabs
            /\ LatestRoundType(AcmeLabs) = ""
            /\ results[i].explanation = ""
    /\ \E i \in ResultIndices :
            /\ results[i].entity = TechStartInc
            /\ LatestRoundType(TechStartInc) = "Series A"

(***************************************************************************)
(* Properties of the company filter, the tag bonus and the investor boost. *)
(***************************************************************************)
\* the target is within the tolerance calculateFuzzyScore gives the query:
\* it contains the query or is at most max(2, floor(0.3 * |query|)) edits
\* from it
WithinTolerance(q, t) == includes(t, q) \/ EditDistance(q, t) <= FuzzyMaxDistance(q)

\* the query text matched the name, the title, the bio or a tag of the person
TextMatched(pp) ==
    \/ NameScore(pp, parsed) > 0
    \/ TitleScore(pp, parsed) > 0
    \/ BioScore(pp, parsed) > 0
    \/ HasTagMatch(pp, parsed)

\* C21: with a company filter, every real person returned has a company
\* field within the tolerance of the filter and a name, title, bio or tag
\* the query text matched.
C21_CompanyAndContent ==
    (outcome = "ok" /\ FilterGiven("company")) =>
        \A i \in ResultIndices :
            IsRealPerson(results[i]) =>
                /\ WithinTolerance(toLowerCase(parsed.filters.company),
                                   Processed(results[i].entity).companyLower)
                /\ TextMatched(Processed(results[i].entity))

\* with the company filter "Meta" Emily Johnson of Meta is returned, and
\* Sarah Chen of Google, whose title the text matches, is not
C21_Witness ==
    /\ OnSampleData
    /\ outcome = "ok"
    /\ FilterGiven("company")
    /\ toLowerCase(parsed.filters.company) = "meta"
    /\ \E i \in ResultIndices :
            results[i].entity = EmilyJohnson /\ includes(results[i].explanation, "company match")
    /\ TextMatched(Processed(SarahChen))
    /\ \A i \in ResultIndices : results[i].entity # SarahChen

\* the tags of a person that contain, or are contained in, an expanded text
MatchingTags(pp) ==
    {t \in 1..Len(pp.tagsLower) :
        \E k \in 1..Len(parsed.expandedText) :
            \/ includes(pp.tagsLower[t], parsed.expandedText[k])
            \/ includes(parsed.expandedText[k], pp.tagsLower[t])}

\* what "Tags matching (text search)" adds to the score of a person
TagBonus(pp) == PersonTagsLoop(Start, pp, parsed, 1).score

\* C22: the tag bonus of every person is 0.25 for each tag of theirs that
\* contains or is contained in an expanded text, no more and no less.
C22_TagBonusOncePerTag ==
    (outcome = "ok" /\ PersonsSearched) =>
        \A k \in 1..Len(processedPeople) :
            TagBonus(processedPeople[k]) =
                W(25) * Cardinality(MatchingTags(processedPeople[k]))

\* the labels "Investor search" pushes for an organization
InvestorLabels(po) == OrgInvestorsLoop(Start, po, parsed, 1).matches

\* the investors of an organization that an expanded text matches strongly
MatchedInvestors(po) ==
    {v \in 1..Len(po.investorsLower) :
        \E k \in 1..Len(parsed.expandedText) :
            calculateFuzzyScore(parsed.expandedText[k], po.investorsLower[v]) >= W(60)}

\* C23: in a search for organizations every investor of an organization is
\* counted at most once, so that the investor boost is at most 0.35 for
\* each investor an expanded text matches.
C23_InvestorOncePerOrganization ==
    (outcome = "ok" /\ OrganizationsSearched) =>
        \A o \in 1..Len(processedOrganizations) :
            LET po == processedOrganizations[o]
            IN  /\ \A v \in 1..Len(po.investorsLower) :
                        Cardinality({m \in 1..Len(InvestorLabels(po)) :
                            InvestorLabels(po)[m] =
                                "investor match (" \o po.investorsLower[v] \o ")"}) <= 1
                /\ OrgInvestorsLoop(Start, po, parsed, 1).score
                        <= W(35) * Cardinality(MatchedInvestors(po))

(***************************************************************************)
(* Properties of parseAndNormalizeQuery.                                   *)
(***************************************************************************)
\* the funding stages as a normalised text names them (normalizeText makes
\* "pre-seed" "pre seed")
StageMentions ==
    {"series a", "series b", "series c", "series d", "series e",
     "seed", "pre seed", "preseed", "ipo"}

StageNames == StageMentions \cup {"pre-seed"}

\* a query without explicit filters whose text holds "at <stage>"
AtStageQuery(q) ==
    /\ ~Has(q, "filters")
    /\ \E st \in StageMentions : HasWord(normalizeText(q.text), "at " \o st)

\* C24: parsing a text without explicit filters that holds "at <stage>" sets
\* fundingStage to a stage, leaves no "at <stage>" in the text, and gives no
\* company filter that is a stage phrase.
C24_AtStageIsNoCompany ==
    (Returned("parseAndNormalizeQuery") /\ AtStageQuery(args[1])) =>
        LET p == ret[1].query
        IN  /\ Has(p.filters, "fundingStage")
            /\ p.filters.fundingStage \in StageNames
            /\ \A st \in StageMentions : ~HasWord(p.text, "at " \o st)
            /\ ~(Has(p.filters, "company") /\ toLowerCase(p.filters.company) \in StageNames)

\* a query whose text holds "pre-seed" and that gives no fundingStage filter
PreSeedQuery(q) ==
    /\ includes(toLowerCase(q.text), "pre-seed")
    /\ ~(Has(q, "filters") /\ Truthy(q.filters, "fundingStage"))

\* C25: parsing a text that holds "pre-seed", with no explicit fundingStage,
\* gives the fundingStage filter "pre-seed" and a text that holds neither
\* "pre" nor "seed".
C25_PreSeedExtractedWhole ==
    (Returned("parseAndNormalizeQuery") /\ PreSeedQuery(args[1])) =>
        LET p == ret[1].query
        IN  /\ Has(p.normalizedFilters, "fundingStage")
            /\ p.normalizedFilters.fundingStage = "pre-seed"
            /\ ~HasWord(p.text, "pre")
            /\ ~HasWord(p.text, "seed")

(***************************************************************************)
(* Properties of search and its parser together.                           *)
(***************************************************************************)
ExtractedFilters == {"location", "fundingStage", "company"}

\* the normalised form of the value v of the filter f (a company has none)
NormalisedFilter(f, v) ==
    CASE f = "location"     -> normalizeLocation(v)
      [] f = "fundingStage" -> normalizeFundingStage(v)
      [] OTHER              -> v

\* the text of q after normalisation and the extraction steps other than
\* the step of the filter f
TextWithoutStep(f, q) ==
    LET step == [filters |-> q.filters, text |-> normalizeText(q.text)]
    IN  CASE f = "location"     -> ExtractCompany(ExtractFundingStage(step)).text
          [] f = "fundingStage" -> ExtractCompany(ExtractLocation(step)).text
          [] OTHER              -> ExtractFundingStage(ExtractLocation(step)).text

\* C26: a search with an explicit location, fundingStage or company filter
\* leaves that filter of the caller's as it is, scores with its normalised
\* form, and has the text that the other extraction steps alone leave.
C26_ExplicitFilterWins ==
    [][(Search /\ IsValidQuery(callerQuery) /\ outcome' = "ok") =>
            \A f \in ExtractedFilters :
                Filter(callerQuery, f) =>
                    /\ callerQuery'.filters[f] = callerQuery.filters[f]
                    /\ parsed'.filters[f] = NormalisedFilter(f, callerQuery.filters[f])
                    /\ parsed'.text = TextWithoutStep(f, callerQuery)]_vars

\* an explicit location given with a text that holds "in SF": the search is
\* for New York and the phrase stays in the text
C26_Witness ==
    /\ outcome = "ok"
    /\ callerQuery = [text |-> "engineer in SF", filters |-> [location |-> "NYC"]]
    /\ parsed.filters.location = "new york"
    /\ parsed.text = "engineer in sf"

\* the entity type the caller gave, "" for none
GivenEntityType == IF Has(callerQuery, "entityType") THEN callerQuery.entityType ELSE ""

\* the normalised text of the caller's query holds one of the words, or its
\* plural when plurals count
TextNames(words, plurals) ==
    \E w \in words :
        \/ HasWord(normalizeText(callerQuery.text), w)
        \/ plurals /\ HasWord(normalizeText(callerQuery.text), w \o "s")

\* the entity type the search is to be made for
ExpectedEntityType ==
    IF GivenEntityType \in {"person", "organization"} THEN GivenEntityType
    ELSE IF TextNames({"engineer", "developer", "cto", "ceo", "founder", "people", "person"},
                      FALSE)
         THEN "person"
    ELSE IF TextNames({"company", "startup", "firm", "agency"}, TRUE) THEN "organization"
    ELSE GivenEntityType

\* C27: a search that returns is made for the entity type given when that
\* is person or organization, else for persons when the text names a person
\* word, else for organizations when it names an organization word, else for
\* the type as given; with no type it returns what a search for persons
\* returns.
C27_EntityTypeInference ==
    [][(Search /\ IsValidQuery(callerQuery) /\ outcome' = "ok") =>
            /\ IF ExpectedEntityType = "" THEN ~Has(parsed', "entityType")
               ELSE Has(parsed', "entityType") /\ parsed'.entityType = ExpectedEntityType
            /\ ExpectedEntityType = "" =>
                  results' = search(With(callerQuery, "entityType", "person"), now,
                                    processedPeople, processedOrganizations,
                                    organizations).results
            /\ ExpectedEntityType \in {"", "person"} =>
                  \A i \in 1..Len(results') : results'[i].kind = "person"
            /\ ExpectedEntityType = "organization" =>
                  \A i \in 1..Len(results') : results'[i].kind = "organization"]_vars

\* a text that names both a person word and an organization word, searched
\* with the type both: persons are returned and no organization
C27_Witness ==
    /\ outcome = "ok"
    /\ callerQuery = [text |-> "founder at Series A startups", entityType |-> "both"]
    /\ parsed.entityType = "person"
    /\ results # <<>>
    /\ \A i \in ResultIndices : results[i].kind = "person"

\* C28: a search leaves the caller's query object as it was, so that a
\* second search with the same object at the same time returns the results
\* of the first.
C28_CallerQueryUntouched ==
    [][Search =>
            /\ callerQuery' = callerQuery
            /\ outcome' = "ok" =>
                  results' = search(callerQuery', now, processedPeople,
                                    processedOrganizations, organizations).results]_vars

\* the executives named by the organizations of the collection
AllExecutives ==
    UNION {{[exec |-> organizations[n].executives[k], org |-> organizations[n]] :
                k \in 1..Len(organizations[n].executives)} :
           n \in {m \in 1..Len(organizations) : Has(organizations[m], "executives")}}

\* C29: a search for persons with no company, fundingStage, location or role
\* filter returns, for every executive of every organization, a synthetic
\* person of that name and organization, or else an entry of that name.
C29_EveryExecutiveReturned ==
    (/\ outcome = "ok"
     /\ PersonsSearched
     /\ \A f \in {"company", "fundingStage", "location", "role"} : ~FilterGiven(f)) =>
        \A e \in AllExecutives :
            \/ \E i \in ResultIndices :
                    /\ IsSyntheticPerson(results[i])
                    /\ results[i].entity.fullName = e.exec.name
                    /\ results[i].entity.company = e.org.name
            \/ EntriesNamed(e.exec.name) # {}

\* a text that matches no name and no title: John Smith, the CEO of TechStart
\* Inc, is returned as a synthetic person for the company context alone
C29_Witness ==
    /\ outcome = "ok"
    /\ PersonsSearched
    /\ callerQuery.text = "zzzz"
    /\ \E i \in ResultIndices :
            /\ IsSyntheticPerson(results[i])
            /\ results[i].entity.fullName = "John Smith"
            /\ results[i].explanation = "at TechStart Inc"
            /\ results[i].score = W(10)

\* C30: the text a search that returns has matched with is not empty, and no
\* expanded text is the empty string.
C30_ResidualTextNotEmpty ==
    outcome = "ok" =>
        /\ parsed.text # ""
        /\ \A k \in 1..Len(parsed.expandedText) : parsed.expandedText[k] # ""

====
